---------------------------- MODULE Spec2Model ----------------------------
(***************************************************************************)
(* A model of the recursive-descent SQL parser of mysql-sqlparse-rs        *)
(* (src/src/parser.rs) and of the Display rendering of its AST             *)
(* (src/src/ast/mod.rs).                                                   *)
(*                                                                         *)
(* The parser state is the token vector, the cursor index and the dialect  *)
(* tag.  Every sub-parser `fn parse_x(&mut self) -> Result<T, ParserError>`*)
(* is an operator parse_x(toks, i, ...) that returns a record              *)
(*     [st |-> "ok" | "err" | "panic" | "diverge", i |-> cursor, v |-> T]  *)
(* where i is the cursor index after the call (0-based, as in the code).   *)
(* Tokens are strings: a keyword is its upper-case spelling, an identifier *)
(* its text, a number its digits, a punctuation token its character(s).    *)
(* AST nodes are tuples whose first element is the variant name.           *)
(***************************************************************************)
EXTENDS Integers, Sequences, FiniteSets, TLC

VARIABLES
    tokens,        \* Parser.tokens
    dialect_type,  \* Parser.dialect_type
    index,         \* Parser.index
    pc,            \* position of the running call: "run", "ok", "err", "panic", ...
    stmts,         \* parse_sql: the local `stmts`
    expecting_statement_delimiter,  \* parse_sql: the local of that name
    ret,           \* the value returned by the entry point, <<"None">> while running
    hist           \* history of the run (what was returned, where statements began)

vars == <<tokens, dialect_type, index, pc, stmts, expecting_statement_delimiter, ret, hist>>

-----------------------------------------------------------------------------
(* Tokens                                                                  *)

EOF == "EOF"
NoToken == "None"     \* Vec::get out of range

\* Token::Whitespace(Space | Tab | Newline | SingleLineComment | MultiLineComment)
Whitespace == {"WS", "TAB", "NL", "LC", "BC"}

\* a cursor that takes only Whitespace::Space for whitespace
IsSpaceOnly(t) == t = "WS"

IsWhitespace(t) == t \in Whitespace

\* self.tokens.get(j), j 0-based
TokGet(toks, j) == IF j >= 0 /\ j < Len(toks) THEN toks[j + 1] ELSE NoToken

-----------------------------------------------------------------------------
(* Cursor                                                                  *)

RECURSIVE peek_nth_loop(_, _, _)
peek_nth_loop(toks, idx, n) ==
    LET index1 == idx + 1
        t == TokGet(toks, index1 - 1)
    IN IF IsWhitespace(t) THEN peek_nth_loop(toks, index1, n)
       ELSE IF n = 0 THEN (IF t = NoToken THEN EOF ELSE t)
       ELSE peek_nth_loop(toks, index1, n - 1)

peek_nth_token(toks, i, n) == peek_nth_loop(toks, i, n)

peek_token(toks, i) == peek_nth_token(toks, i, 0)

\* returns <<token, new index>>
RECURSIVE next_token(_, _)
next_token(toks, i) ==
    LET index1 == i + 1
        t == TokGet(toks, index1 - 1)
    IN IF IsWhitespace(t) THEN next_token(toks, index1)
       ELSE <<(IF t = NoToken THEN EOF ELSE t), index1>>

\* next_token_no_ignore_comment with a `continue` arm for block comments too
next_token_ignore_comment(toks, i) == next_token(toks, i)

\* skips spaces, tabs, newlines and line comments, but not block comments
RECURSIVE next_token_no_ignore_comment(_, _)
next_token_no_ignore_comment(toks, i) ==
    LET index1 == i + 1
        t == TokGet(toks, index1 - 1)
    IN IF t \in {"LC", "WS", "NL", "TAB"} THEN next_token_no_ignore_comment(toks, index1)
       ELSE <<(IF t = NoToken THEN EOF ELSE t), index1>>

\* returns <<Option<token>, new index>>
next_token_no_skip(toks, i) == <<TokGet(toks, i), i + 1>>

\* the index after prev_token, or PanicIndex when assert!(self.index > 0) fails
PanicIndex == 0 - 1

\* prev_token with the whitespace test made on the token at the cursor
\* instead of the token stepped back to: C10 does not hold of it
RECURSIVE prev_token_tests_cursor(_, _)
prev_token_tests_cursor(toks, i) ==
    IF ~(i > 0) THEN PanicIndex
    ELSE IF IsWhitespace(TokGet(toks, i)) THEN prev_token_tests_cursor(toks, i - 1)
    ELSE i - 1

RECURSIVE prev_token(_, _)
prev_token(toks, i) ==
    IF ~(i > 0) THEN PanicIndex
    ELSE LET index1 == i - 1
         IN IF IsWhitespace(TokGet(toks, index1)) THEN prev_token(toks, index1)
            ELSE index1


-----------------------------------------------------------------------------
(* Token classes                                                           *)

\* Token::Number(text): the tokenizer emits the digits verbatim
Numbers == {"1", "2", "3", "1.5"}
\* Token::SingleQuotedString
Strings == {"'s'"}
\* Token::VariableString: the `?` marker and @name
VariableStrings == {"?", "@v"}
\* punctuation and operator atoms
Punctuation == {",", ".", "(", ")", "[", "]", "=", "<>", "<", "<=", ">", ">=", "+", "-",
                "*", "/", "%", "||", "|", "^", "&", "~", "<<", ">>", "::", ";", "\\"}

NonWord == Whitespace \cup Numbers \cup Strings \cup VariableStrings \cup Punctuation
           \cup {EOF, NoToken}

\* Token::Word(w): every other token.  w.keyword is the token itself when it
\* spells a keyword; identifiers of the model never spell a keyword.
IsWord(t) == t \notin NonWord

-----------------------------------------------------------------------------
(* Results                                                                 *)

Ok(i, v) == [st |-> "ok", i |-> i, v |-> v]
\* Every call of a parsing function by another is written
\* Call("f", <<arguments>>): the function f applied to the arguments
RECURSIVE Call(_, _)

Err(i, e) == [st |-> "err", i |-> i, v |-> e]
Panic(i, what) == [st |-> "panic", i |-> i, v |-> <<"panic", what>>]
Diverge(i) == [st |-> "diverge", i |-> i, v |-> <<"diverge">>]

\* fn expected(&self, expected, found): "Expected {}, found: {}"
expected(i, what, found) == Err(i, <<"Expected", what, found>>)

\* parser_err!(msg)
parser_err(i, msg) == Err(i, <<"Msg", msg>>)

\* an iteration count no loop that consumes a token per iteration can exceed
LoopBound(toks) == Len(toks) + 2

-----------------------------------------------------------------------------
(* Keyword and token helpers: each returns <<matched, new index>>          *)

parse_keyword(toks, i, kw) ==
    LET t == peek_token(toks, i)
    IN IF IsWord(t) /\ t = kw THEN <<TRUE, next_token(toks, i)[2]>> ELSE <<FALSE, i>>

\* parse_keywords without `self.index = index` on a mismatch: the keywords
\* matched before the mismatch stay consumed
RECURSIVE parse_keywords_from_no_reset(_, _, _, _)
parse_keywords_from_no_reset(toks, i, kws, start) ==
    IF kws = <<>> THEN <<TRUE, i>>
    ELSE LET r == Call("parse_keyword", <<toks, i, Head(kws)>>)
         IN IF ~r[1] THEN <<FALSE, i>>
            ELSE parse_keywords_from_no_reset(toks, r[2], Tail(kws), start)

RECURSIVE parse_keywords_from(_, _, _, _)
parse_keywords_from(toks, i, kws, start) ==
    IF kws = <<>> THEN <<TRUE, i>>
    ELSE LET r == Call("parse_keyword", <<toks, i, Head(kws)>>)
         IN IF ~r[1] THEN <<FALSE, start>>     \* reset index and return immediately
            ELSE Call("parse_keywords_from", <<toks, r[2], Tail(kws), start>>)

parse_keywords(toks, i, kws) == Call("parse_keywords_from", <<toks, i, kws, i>>)

\* returns <<Some(keyword) or "None", new index>>
parse_one_of_keywords(toks, i, kws) ==
    LET t == peek_token(toks, i)
    IN IF IsWord(t) /\ t \in kws THEN <<t, next_token(toks, i)[2]>> ELSE <<"None", i>>

expect_keyword(toks, i, kw) ==
    LET r == Call("parse_keyword", <<toks, i, kw>>)
    IN IF r[1] THEN Ok(r[2], <<>>) ELSE expected(i, kw, peek_token(toks, i))

consume_token(toks, i, tok) ==
    IF peek_token(toks, i) = tok THEN <<TRUE, next_token(toks, i)[2]>> ELSE <<FALSE, i>>

expect_token(toks, i, tok) ==
    LET r == Call("consume_token", <<toks, i, tok>>)
    IN IF r[1] THEN Ok(r[2], <<>>) ELSE expected(i, tok, peek_token(toks, i))

-----------------------------------------------------------------------------
(* Names, literals and data types                                          *)

RECURSIVE parse_subexpr(_, _, _)
RECURSIVE parse_subexpr_loop(_, _, _, _, _)
RECURSIVE parse_prefix(_, _)
RECURSIVE parse_infix(_, _, _, _)
RECURSIVE parse_in(_, _, _, _)
RECURSIVE parse_between(_, _, _, _)
RECURSIVE parse_function(_, _, _)
RECURSIVE parse_optional_args(_, _)
RECURSIVE parse_item(_, _, _)
RECURSIVE parse_comma_separated_loop(_, _, _, _, _)
RECURSIVE parse_query(_, _)

\* Option<T>
None == <<"None">>
Some(v) == <<"Some", v>>

\* maybe_parse without `self.index = index` in the else branch
maybe_parse_no_restore(r, i) ==
    IF r.st = "err" THEN [st |-> "none", i |-> r.i, v |-> <<"None">>] ELSE r

\* fn maybe_parse: r is what f returned, i the index saved before f ran.
\* On Err the index is restored and the outcome is None (st = "none").
maybe_parse(r, i) ==
    IF r.st = "err" THEN [st |-> "none", i |-> i, v |-> None] ELSE r

parse_identifier(toks, i) ==
    LET nt == next_token(toks, i)
    IN IF IsWord(nt[1]) \/ nt[1] \in VariableStrings THEN Ok(nt[2], nt[1])
       ELSE expected(nt[2], "identifier", nt[1])

RECURSIVE parse_object_name_loop(_, _, _)
parse_object_name_loop(toks, i, idents) ==
    LET id == Call("parse_identifier", <<toks, i>>)
    IN IF id.st # "ok" THEN id
       ELSE LET c == Call("consume_token", <<toks, id.i, ".">>)
            IN IF ~c[1] THEN Ok(c[2], Append(idents, id.v))
               ELSE Call("parse_object_name_loop", <<toks, c[2], Append(idents, id.v)>>)

\* ObjectName(Vec<Ident>)
parse_object_name(toks, i) == Call("parse_object_name_loop", <<toks, i, <<>>>>)

\* Token::Number texts that str::parse::<u64>() accepts
UIntNumbers == {"1", "2", "3"}

parse_literal_uint(toks, i) ==
    LET nt == next_token(toks, i)
    IN IF nt[1] \in Numbers
       THEN (IF nt[1] \in UIntNumbers THEN Ok(nt[2], nt[1])
             ELSE parser_err(nt[2], "Could not parse as u64"))
       ELSE expected(nt[2], "literal int", nt[1])

parse_literal_string(toks, i) ==
    LET nt == next_token(toks, i)
    IN IF nt[1] \in Strings THEN Ok(nt[2], nt[1])
       ELSE expected(nt[2], "literal string", nt[1])

parse_value(toks, i) ==
    LET nt == next_token(toks, i)
        t == nt[1]
    IN IF IsWord(t)
       THEN CASE t = "TRUE" -> Ok(nt[2], <<"Boolean", TRUE>>)
              [] t = "FALSE" -> Ok(nt[2], <<"Boolean", FALSE>>)
              [] t = "NULL" -> Ok(nt[2], <<"Null">>)
              [] OTHER -> expected(nt[2], "a concrete value", t)
       ELSE IF t \in Numbers THEN Ok(nt[2], <<"Number", t>>)
       ELSE IF t \in Strings THEN Ok(nt[2], <<"SingleQuotedString", t>>)
       ELSE IF t \in VariableStrings THEN Ok(nt[2], <<"VariableName", t>>)
       ELSE expected(nt[2], "a value", t)

parse_number_value(toks, i) ==
    LET r == Call("parse_value", <<toks, i>>)
    IN IF r.st # "ok" THEN r
       ELSE IF r.v[1] = "Number" THEN r
       ELSE LET b == prev_token(toks, r.i)
            IN IF b = PanicIndex THEN Panic(r.i, "prev_token")
               ELSE expected(b, "literal number", peek_token(toks, b))

parse_optional_precision(toks, i) ==
    LET c == Call("consume_token", <<toks, i, "(">>)
    IN IF ~c[1] THEN Ok(i, None)
       ELSE LET n == Call("parse_literal_uint", <<toks, c[2]>>)
            IN IF n.st # "ok" THEN n
               ELSE LET e == Call("expect_token", <<toks, n.i, ")">>)
                    IN IF e.st # "ok" THEN e ELSE Ok(e.i, Some(n.v))

\* The data type keywords of the model are INT, INTEGER, VARCHAR and DATE; every
\* other word is a custom type name.
parse_data_type(toks, i) ==
    LET nt == next_token(toks, i)
        t == nt[1]
    IN IF ~IsWord(t) THEN expected(nt[2], "a data type name", t)
       ELSE CASE t \in {"INT", "INTEGER"} ->
                   LET p == Call("parse_optional_precision", <<toks, nt[2]>>)
                   IN IF p.st # "ok" THEN p ELSE Ok(p.i, <<"Int">>)
              [] t = "VARCHAR" ->
                   LET p == Call("parse_optional_precision", <<toks, nt[2]>>)
                   IN IF p.st # "ok" THEN p ELSE Ok(p.i, <<"Varchar", p.v>>)
              [] t = "DATE" -> Ok(nt[2], <<"Date">>)
              [] OTHER ->
                   LET b == prev_token(toks, nt[2])
                   IN IF b = PanicIndex THEN Panic(nt[2], "prev_token")
                      ELSE LET n == Call("parse_object_name", <<toks, b>>)
                           IN IF n.st # "ok" THEN n ELSE Ok(n.i, <<"Custom", n.v>>)

\* fn parse_comma_separated(f): `kind` names f
parse_comma_separated_loop(kind, toks, i, values, n) ==
    IF n > LoopBound(toks) THEN Diverge(i)
    ELSE LET r == Call("parse_item", <<kind, toks, i>>)
         IN IF r.st # "ok" THEN r
            ELSE LET c == Call("consume_token", <<toks, r.i, ",">>)
                 IN IF ~c[1] THEN Ok(c[2], Append(values, r.v))
                    ELSE Call("parse_comma_separated_loop", <<kind, toks, c[2], Append(values, r.v), n + 1>>)

parse_comma_separated(kind, toks, i) == Call("parse_comma_separated_loop", <<kind, toks, i, <<>>, 0>>)

parse_all_or_distinct(toks, i) ==
    LET a == Call("parse_keyword", <<toks, i, "ALL">>)
        d == Call("parse_keyword", <<toks, a[2], "DISTINCT">>)
    IN IF a[1] /\ d[1] THEN parser_err(d[2], "Cannot specify both ALL and DISTINCT")
       ELSE Ok(d[2], d[1])

-----------------------------------------------------------------------------
(* Expression engine (Pratt)                                               *)

UNARY_NOT_PREC == 15
BETWEEN_PREC == 20
PLUS_MINUS_PREC == 30

\* get_next_precedence with NOT taken for an infix operator on sight
get_next_precedence_commits_on_not(toks, i) ==
    LET token == peek_token(toks, i)
    IN CASE token = "OR" -> 5
         [] token = "AND" -> 10
         [] token = "IS" -> 17
         [] token \in {"NOT", "IN", "BETWEEN", "LIKE"} -> BETWEEN_PREC
         [] token \in {"=", "<", "<=", "<>", ">", ">="} -> 20
         [] token = "|" -> 21
         [] token = "^" -> 22
         [] token = "&" -> 23
         [] token \in {"+", "-"} -> PLUS_MINUS_PREC
         [] token \in {"*", "/", "%", "||", "~", "<<", ">>"} -> 40
         [] token = "::" -> 50
         [] OTHER -> 0

\* fn get_next_precedence
get_next_precedence(toks, i) ==
    LET token == peek_token(toks, i)
    IN CASE token = "OR" -> 5
         [] token = "AND" -> 10
         [] token = "NOT" ->
              (LET t1 == peek_nth_token(toks, i, 1)
               IN IF t1 \in {"IN", "BETWEEN", "LIKE"} THEN BETWEEN_PREC ELSE 0)
         [] token = "IS" -> 17
         [] token \in {"IN", "BETWEEN", "LIKE"} -> BETWEEN_PREC
         [] token \in {"=", "<", "<=", "<>", ">", ">="} -> 20
         [] token = "|" -> 21
         [] token = "^" -> 22
         [] token = "&" -> 23
         [] token \in {"+", "-"} -> PLUS_MINUS_PREC
         [] token \in {"*", "/", "%", "||", "~", "<<", ">>"} -> 40
         [] token = "::" -> 50
         [] OTHER -> 0

\* the table of parse_infix with no entry for Token::Div
RegularBinaryOperator_without_divide(tok) ==
    CASE tok = "=" -> "Eq"
      [] tok = "<>" -> "NotEq"
      [] tok = ">" -> "Gt"
      [] tok = ">=" -> "GtEq"
      [] tok = "<" -> "Lt"
      [] tok = "<=" -> "LtEq"
      [] tok = "+" -> "Plus"
      [] tok = "-" -> "Minus"
      [] tok = "*" -> "Multiply"
      [] tok = "%" -> "Modulus"
      [] tok = "||" -> "StringConcat"
      [] tok = "|" -> "BitwiseOr"
      [] tok = "^" -> "BitwiseXor"
      [] tok = "&" -> "BitwiseAnd"
      [] tok = "~" -> "BitwiseNegate"
      [] tok = "<<" -> "BitwiseNegateLDisplacement"
      [] tok = ">>" -> "BitwiseNegateRDisplacement"
      [] tok = "AND" -> "And"
      [] tok = "OR" -> "Or"
      [] tok = "LIKE" -> "Like"
      [] OTHER -> "None"

\* parse_infix: the token -> BinaryOperator table; "None" when there is none
RegularBinaryOperator(tok) ==
    CASE tok = "=" -> "Eq"
      [] tok = "<>" -> "NotEq"
      [] tok = ">" -> "Gt"
      [] tok = ">=" -> "GtEq"
      [] tok = "<" -> "Lt"
      [] tok = "<=" -> "LtEq"
      [] tok = "+" -> "Plus"
      [] tok = "-" -> "Minus"
      [] tok = "*" -> "Multiply"
      [] tok = "%" -> "Modulus"
      [] tok = "||" -> "StringConcat"
      [] tok = "|" -> "BitwiseOr"
      [] tok = "^" -> "BitwiseXor"
      [] tok = "&" -> "BitwiseAnd"
      [] tok = "~" -> "BitwiseNegate"
      [] tok = "<<" -> "BitwiseNegateLDisplacement"
      [] tok = ">>" -> "BitwiseNegateRDisplacement"
      [] tok = "/" -> "Divide"
      [] tok = "AND" -> "And"
      [] tok = "OR" -> "Or"
      [] tok = "LIKE" -> "Like"
      [] OTHER -> "None"

\* parse_expr that stops in front of AND and OR
parse_expr_above_and(toks, i) == Call("parse_subexpr", <<toks, i, 10>>)

\* parse_subexpr(0), reached through the element dispatcher parse_item
parse_expr(toks, i) == Call("parse_item", <<"expr", toks, i>>)

\* the loop of parse_subexpr with > for >=: equal precedence would associate
\* to the right, and C8 does not hold of it
RECURSIVE parse_subexpr_loop_strict(_, _, _, _, _)
parse_subexpr_loop_strict(toks, i, expr, precedence, n) ==
    IF n > LoopBound(toks) THEN Diverge(i)
    ELSE LET next_precedence == Call("get_next_precedence", <<toks, i>>)
         IN IF precedence > next_precedence \/ next_precedence = 0 THEN Ok(i, expr)
            ELSE LET r == Call("parse_infix", <<toks, i, expr, next_precedence>>)
                 IN IF r.st # "ok" THEN r
                    ELSE parse_subexpr_loop_strict(toks, r.i, r.v, precedence, n + 1)

\* the loop of parse_subexpr; n counts its iterations
parse_subexpr_loop(toks, i, expr, precedence, n) ==
    IF n > LoopBound(toks) THEN Diverge(i)
    ELSE LET next_precedence == Call("get_next_precedence", <<toks, i>>)
         IN IF precedence >= next_precedence THEN Ok(i, expr)
            ELSE LET r == Call("parse_infix", <<toks, i, expr, next_precedence>>)
                 IN IF r.st # "ok" THEN r
                    ELSE Call("parse_subexpr_loop", <<toks, r.i, r.v, precedence, n + 1>>)

\* parse_subexpr that starts its loop at precedence 0 whatever it was given
parse_subexpr_from_zero(toks, i, precedence) ==
    LET p == Call("parse_prefix", <<toks, i>>)
    IN IF p.st # "ok" THEN p
       ELSE Call("parse_subexpr_loop", <<toks, p.i, p.v, 0, 0>>)

parse_subexpr(toks, i, precedence) ==
    LET p == Call("parse_prefix", <<toks, i>>)
    IN IF p.st # "ok" THEN p
       ELSE Call("parse_subexpr_loop", <<toks, p.i, p.v, precedence, 0>>)

parse_pg_cast(toks, i, expr) ==
    LET d == Call("parse_data_type", <<toks, i>>)
    IN IF d.st # "ok" THEN d ELSE Ok(d.i, <<"Cast", expr, d.v>>)

parse_between(toks, i, expr, negated) ==
    LET low == Call("parse_subexpr", <<toks, i, BETWEEN_PREC>>)
    IN IF low.st # "ok" THEN low
       ELSE LET a == Call("expect_keyword", <<toks, low.i, "AND">>)
            IN IF a.st # "ok" THEN a
               ELSE LET high == Call("parse_subexpr", <<toks, a.i, BETWEEN_PREC>>)
                    IN IF high.st # "ok" THEN high
                       ELSE Ok(high.i, <<"Between", expr, negated, low.v, high.v>>)

\* parse_in without the look at SELECT and WITH: always a list
parse_in_list_only(toks, i, expr, negated) ==
    LET l == Call("expect_token", <<toks, i, "(">>)
    IN IF l.st # "ok" THEN l
       ELSE LET list == Call("parse_comma_separated", <<"expr", toks, l.i>>)
            IN IF list.st # "ok" THEN list
               ELSE LET e == Call("expect_token", <<toks, list.i, ")">>)
                    IN IF e.st # "ok" THEN e
                       ELSE Ok(e.i, <<"InList", expr, list.v, negated>>)

parse_in(toks, i, expr, negated) ==
    LET l == Call("expect_token", <<toks, i, "(">>)
    IN IF l.st # "ok" THEN l
       ELSE LET s == Call("parse_keyword", <<toks, l.i, "SELECT">>)
                w == IF s[1] THEN s ELSE Call("parse_keyword", <<toks, l.i, "WITH">>)
                in_op ==
                  IF w[1]
                  THEN LET b == prev_token(toks, w[2])
                       IN IF b = PanicIndex THEN Panic(w[2], "prev_token")
                          ELSE LET q == Call("parse_query", <<toks, b>>)
                               IN IF q.st # "ok" THEN q
                                  ELSE Ok(q.i, <<"InSubquery", expr, q.v, negated>>)
                  ELSE LET list == Call("parse_comma_separated", <<"expr", toks, l.i>>)
                       IN IF list.st # "ok" THEN list
                          ELSE Ok(list.i, <<"InList", expr, list.v, negated>>)
            IN IF in_op.st # "ok" THEN in_op
               ELSE LET e == Call("expect_token", <<toks, in_op.i, ")">>)
                    IN IF e.st # "ok" THEN e ELSE Ok(e.i, in_op.v)

parse_infix(toks, i, expr, precedence) ==
    LET nt == next_token(toks, i)
        tok == nt[1]
        j == nt[2]
        \* Keyword::NOT => if self.parse_keyword(Keyword::LIKE) { NotLike } else { None }
        nl == IF tok = "NOT" THEN Call("parse_keyword", <<toks, j, "LIKE">>) ELSE <<FALSE, j>>
        op == IF tok = "NOT" THEN (IF nl[1] THEN "NotLike" ELSE "None")
              ELSE RegularBinaryOperator(tok)
        k == nl[2]
    IN IF op # "None"
       THEN LET r == Call("parse_subexpr", <<toks, k, precedence>>)
            IN IF r.st # "ok" THEN r ELSE Ok(r.i, <<"BinaryOp", expr, op, r.v>>)
       ELSE IF IsWord(tok)
       THEN CASE tok = "IS" ->
                   LET n1 == Call("parse_keyword", <<toks, k, "NULL">>)
                       n2 == Call("parse_keywords", <<toks, k, <<"NOT", "NULL">>>>)
                   IN IF n1[1] THEN Ok(n1[2], <<"IsNull", expr>>)
                      ELSE IF n2[1] THEN Ok(n2[2], <<"IsNotNull", expr>>)
                      ELSE expected(k, "NULL or NOT NULL after IS", peek_token(toks, k))
              [] tok \in {"NOT", "IN", "BETWEEN"} ->
                   LET b == prev_token(toks, k)
                   IN IF b = PanicIndex THEN Panic(k, "prev_token")
                      ELSE LET neg == Call("parse_keyword", <<toks, b, "NOT">>)
                               isin == Call("parse_keyword", <<toks, neg[2], "IN">>)
                               bt == Call("parse_keyword", <<toks, neg[2], "BETWEEN">>)
                           IN IF isin[1] THEN Call("parse_in", <<toks, isin[2], expr, neg[1]>>)
                              ELSE IF bt[1] THEN Call("parse_between", <<toks, bt[2], expr, neg[1]>>)
                              ELSE expected(neg[2], "IN or BETWEEN after NOT",
                                            peek_token(toks, neg[2]))
              [] OTHER -> Panic(k, "No infix parser for token")
       ELSE IF tok = "::" THEN Call("parse_pg_cast", <<toks, k, expr>>)
       ELSE Panic(k, "No infix parser for token")

\* parse_prefix: the `while self.consume_token(&Token::Period)` loop over id_parts.
\* Returns <<id_parts, ends_with_wildcard>> in v.
RECURSIVE id_parts_loop(_, _, _)
id_parts_loop(toks, i, id_parts) ==
    LET c == Call("consume_token", <<toks, i, ".">>)
    IN IF ~c[1] THEN Ok(i, <<id_parts, FALSE>>)
       ELSE LET nt == next_token(toks, c[2])
            IN IF IsWord(nt[1]) THEN Call("id_parts_loop", <<toks, nt[2], Append(id_parts, nt[1])>>)
               ELSE IF nt[1] = "*" THEN Ok(nt[2], <<id_parts, TRUE>>)
               ELSE expected(nt[2], "an identifier or a '*' after '.'", nt[1])

\* parse_prefix: the speculative `TYPE 'literal'` closure given to maybe_parse
\* (DataType::Interval does not occur: INTERVAL is not a keyword of the model)
parse_typed_string(toks, i) ==
    LET d == Call("parse_data_type", <<toks, i>>)
    IN IF d.st # "ok" THEN d
       ELSE IF d.v[1] = "Custom" THEN parser_err(d.i, "dummy")
       ELSE LET s == Call("parse_literal_string", <<toks, d.i>>)
            IN IF s.st # "ok" THEN s ELSE Ok(s.i, <<"TypedString", d.v, s.v>>)

\* parse_prefix: the `match self.next_token()` after the speculative parse
parse_prefix_match(toks, i) ==
    LET nt == next_token(toks, i)
        tok == nt[1]
        j == nt[2]
    IN IF IsWord(tok)
       THEN CASE tok \in {"TRUE", "FALSE", "NULL"} ->
                   LET b == prev_token(toks, j)
                   IN IF b = PanicIndex THEN Panic(j, "prev_token")
                      ELSE LET v == Call("parse_value", <<toks, b>>)
                           IN IF v.st # "ok" THEN v ELSE Ok(v.i, <<"Value", v.v>>)
              [] tok = "NOT" ->
                   LET e == Call("parse_subexpr", <<toks, j, UNARY_NOT_PREC>>)
                   IN IF e.st # "ok" THEN e ELSE Ok(e.i, <<"UnaryOp", "Not", e.v>>)
              [] OTHER ->
                   IF peek_token(toks, j) \in {"(", "."}
                   THEN LET ids == Call("id_parts_loop", <<toks, j, <<tok>>>>)
                        IN IF ids.st # "ok" THEN ids
                           ELSE IF ids.v[2] THEN Ok(ids.i, <<"QualifiedWildcard", ids.v[1]>>)
                           ELSE LET c == Call("consume_token", <<toks, ids.i, "(">>)
                                IN IF c[1]
                                   THEN LET b == prev_token(toks, c[2])
                                        IN IF b = PanicIndex THEN Panic(c[2], "prev_token")
                                           ELSE Call("parse_function", <<toks, b, ids.v[1]>>)
                                   ELSE Ok(ids.i, <<"CompoundIdentifier", ids.v[1]>>)
                   ELSE Ok(j, <<"Identifier", tok>>)
       ELSE CASE tok = "*" -> Ok(j, <<"Wildcard">>)
              [] tok \in {"-", "+"} ->
                   LET e == Call("parse_subexpr", <<toks, j, PLUS_MINUS_PREC>>)
                   IN IF e.st # "ok" THEN e
                      ELSE Ok(e.i, <<"UnaryOp", IF tok = "+" THEN "Plus" ELSE "Minus", e.v>>)
              [] tok \in Numbers \cup Strings \cup VariableStrings ->
                   LET b == prev_token(toks, j)
                   IN IF b = PanicIndex THEN Panic(j, "prev_token")
                      ELSE LET v == Call("parse_value", <<toks, b>>)
                           IN IF v.st # "ok" THEN v ELSE Ok(v.i, <<"Value", v.v>>)
              [] tok = "(" ->
                   LET s == Call("parse_keyword", <<toks, j, "SELECT">>)
                       w == IF s[1] THEN s ELSE Call("parse_keyword", <<toks, j, "WITH">>)
                       e == IF w[1]
                            THEN LET b == prev_token(toks, w[2])
                                 IN IF b = PanicIndex THEN Panic(w[2], "prev_token")
                                    ELSE LET q == Call("parse_query", <<toks, b>>)
                                         IN IF q.st # "ok" THEN q
                                            ELSE Ok(q.i, <<"Subquery", q.v>>)
                            ELSE LET x == Call("parse_expr", <<toks, j>>)
                                 IN IF x.st # "ok" THEN x ELSE Ok(x.i, <<"Nested", x.v>>)
                   IN IF e.st # "ok" THEN e
                      ELSE LET r == Call("expect_token", <<toks, e.i, ")">>)
                           IN IF r.st # "ok" THEN r ELSE Ok(r.i, e.v)
              [] tok = "~" ->
                   LET e == Call("parse_expr", <<toks, j>>)
                   IN IF e.st # "ok" THEN e ELSE Ok(e.i, <<"BitwiseNested", e.v>>)
              [] OTHER -> expected(j, "an expression", tok)

\* parse_prefix without the COLLATE test behind the prefix
parse_prefix_without_collate(toks, i) ==
    LET typed == maybe_parse(Call("parse_typed_string", <<toks, i>>), i)
    IN IF typed.st # "none" THEN typed ELSE Call("parse_prefix_match", <<toks, typed.i>>)

\* The word keywords CASE, CAST, EXISTS, EXTRACT, INTERVAL and LISTAGG are not
\* keywords of the model and do not occur in its inputs.
parse_prefix(toks, i) ==
    LET typed == maybe_parse(Call("parse_typed_string", <<toks, i>>), i)
    IN IF typed.st # "none" THEN typed
       ELSE LET expr == Call("parse_prefix_match", <<toks, typed.i>>)
            IN IF expr.st # "ok" THEN expr
               ELSE IF dialect_type = "MySql" THEN expr
               ELSE LET c == Call("parse_keyword", <<toks, expr.i, "COLLATE">>)
                    IN IF ~c[1] THEN expr
                       ELSE LET n == Call("parse_object_name", <<toks, c[2]>>)
                            IN IF n.st # "ok" THEN n
                               ELSE Ok(n.i, <<"Collate", expr.v, n.v>>)

parse_optional_args(toks, i) ==
    LET c == Call("consume_token", <<toks, i, ")">>)
    IN IF c[1] THEN Ok(c[2], <<>>)
       ELSE LET args == Call("parse_comma_separated", <<"expr", toks, i>>)
            IN IF args.st # "ok" THEN args
               ELSE LET e == Call("expect_token", <<toks, args.i, ")">>)
                    IN IF e.st # "ok" THEN e ELSE Ok(e.i, args.v)

\* OVER is not a keyword of the model: `over` is always None
parse_function(toks, i, name) ==
    LET l == Call("expect_token", <<toks, i, "(">>)
    IN IF l.st # "ok" THEN l
       ELSE LET d == Call("parse_all_or_distinct", <<toks, l.i>>)
            IN IF d.st # "ok" THEN d
               ELSE LET args == Call("parse_optional_args", <<toks, d.i>>)
                    IN IF args.st # "ok" THEN args
                       ELSE Ok(args.i, <<"Function", name, args.v, None, d.v>>)

-----------------------------------------------------------------------------
(* Queries                                                                 *)

RECURSIVE parse_query_body(_, _, _)
RECURSIVE parse_query_body_loop(_, _, _, _, _)
RECURSIVE parse_select(_, _)
RECURSIVE parse_table_and_joins(_, _)
RECURSIVE parse_joins_loop(_, _, _, _, _)
RECURSIVE parse_table_factor(_, _)
RECURSIVE parse_derived_table_factor(_, _, _)

\* keywords::RESERVED_FOR_COLUMN_ALIAS
RESERVED_FOR_COLUMN_ALIAS ==
    {"WITH", "SELECT", "WHERE", "GROUP", "HAVING", "ORDER", "TOP", "LIMIT", "OFFSET",
     "FETCH", "UNION", "EXCEPT", "INTERSECT", "FROM"}

\* keywords::RESERVED_FOR_TABLE_ALIAS
RESERVED_FOR_TABLE_ALIAS ==
    RESERVED_FOR_COLUMN_ALIAS \cup
    {"ON", "JOIN", "INNER", "CROSS", "FULL", "LEFT", "RIGHT", "NATURAL", "USING", "OUTER"}

parse_optional_alias(toks, i, reserved_kwds) ==
    LET a == Call("parse_keyword", <<toks, i, "AS">>)
        after_as == a[1]
        nt == next_token(toks, a[2])
        t == nt[1]
    IN IF IsWord(t) /\ (after_as \/ t \notin reserved_kwds) THEN Ok(nt[2], Some(t))
       ELSE IF t \in Strings THEN Ok(nt[2], Some(t))
       ELSE IF after_as THEN expected(nt[2], "an identifier after AS", t)
       ELSE LET b == prev_token(toks, nt[2])
            IN IF b = PanicIndex THEN Panic(nt[2], "prev_token") ELSE Ok(b, None)

\* optional = TRUE for IsOptional::Optional
parse_parenthesized_column_list(toks, i, optional) ==
    LET c == Call("consume_token", <<toks, i, "(">>)
    IN IF c[1]
       THEN LET cols == Call("parse_comma_separated", <<"identifier", toks, c[2]>>)
            IN IF cols.st # "ok" THEN cols
               ELSE LET e == Call("expect_token", <<toks, cols.i, ")">>)
                    IN IF e.st # "ok" THEN e ELSE Ok(e.i, cols.v)
       ELSE IF optional THEN Ok(i, <<>>)
       ELSE expected(i, "a list of columns in parentheses", peek_token(toks, i))

parse_optional_table_alias(toks, i, reserved_kwds) ==
    LET a == Call("parse_optional_alias", <<toks, i, reserved_kwds>>)
    IN IF a.st # "ok" THEN a
       ELSE IF a.v = None THEN a
       ELSE LET cols == Call("parse_parenthesized_column_list", <<toks, a.i, TRUE>>)
            IN IF cols.st # "ok" THEN cols
               ELSE Ok(cols.i, Some(<<"TableAlias", a.v[2], cols.v>>))

parse_select_item(toks, i) ==
    LET e == Call("parse_expr", <<toks, i>>)
    IN IF e.st # "ok" THEN e
       ELSE IF e.v[1] = "Wildcard" THEN Ok(e.i, <<"Wildcard">>)
       ELSE IF e.v[1] = "QualifiedWildcard" THEN Ok(e.i, <<"QualifiedWildcard", e.v[2]>>)
       ELSE LET a == Call("parse_optional_alias", <<toks, e.i, RESERVED_FOR_COLUMN_ALIAS>>)
            IN IF a.st # "ok" THEN a
               ELSE IF a.v = None THEN Ok(a.i, <<"UnnamedExpr", e.v>>)
               ELSE Ok(a.i, <<"ExprWithAlias", e.v, a.v[2]>>)

parse_order_by_expr(toks, i) ==
    LET e == Call("parse_expr", <<toks, i>>)
    IN IF e.st # "ok" THEN e
       ELSE LET a == Call("parse_keyword", <<toks, e.i, "ASC">>)
                d == IF a[1] THEN <<FALSE, a[2]>> ELSE Call("parse_keyword", <<toks, e.i, "DESC">>)
                asc == IF a[1] THEN Some(TRUE) ELSE IF d[1] THEN Some(FALSE) ELSE None
                nf == Call("parse_keywords", <<toks, d[2], <<"NULLS", "FIRST">>>>)
                nl == IF nf[1] THEN <<FALSE, nf[2]>>
                      ELSE Call("parse_keywords", <<toks, d[2], <<"NULLS", "LAST">>>>)
                nulls_first == IF nf[1] THEN Some(TRUE) ELSE IF nl[1] THEN Some(FALSE) ELSE None
            IN Ok(nl[2], <<"OrderByExpr", e.v, asc, nulls_first>>)

parse_offset(toks, i) ==
    LET v == Call("parse_number_value", <<toks, i>>)
    IN IF v.st # "ok" THEN v
       ELSE LET r1 == Call("parse_keyword", <<toks, v.i, "ROW">>)
                r2 == IF r1[1] THEN <<FALSE, r1[2]>> ELSE Call("parse_keyword", <<toks, v.i, "ROWS">>)
                rows == IF r1[1] THEN "Row" ELSE IF r2[1] THEN "Rows" ELSE "None"
            IN Ok(r2[2], <<"Offset", <<"Value", v.v>>, rows>>)

\* returns <<limit, offset>> in v
parse_mysql_limit(toks, i) ==
    LET all == Call("parse_keyword", <<toks, i, "ALL">>)
    IN IF all[1] THEN Ok(all[2], <<None, None>>)
       ELSE LET v == Call("parse_number_value", <<toks, i>>)
            IN IF v.st # "ok" THEN v
               ELSE LET limit_value == Some(<<"Value", v.v>>)
                        o == Call("parse_keyword", <<toks, v.i, "OFFSET">>)
                    IN IF o[1]
                       THEN LET off == Call("parse_offset", <<toks, o[2]>>)
                            IN IF off.st # "ok" THEN off
                               ELSE Ok(off.i, <<limit_value, Some(off.v)>>)
                       ELSE IF peek_token(toks, v.i) = ","
                       THEN LET off == Call("parse_offset", <<toks, next_token(toks, v.i)[2]>>)
                            IN IF off.st # "ok" THEN off
                               ELSE Ok(off.i, <<limit_value, Some(off.v)>>)
                       ELSE Ok(v.i, <<limit_value, None>>)

parse_values_row(toks, i) ==
    LET l == Call("expect_token", <<toks, i, "(">>)
    IN IF l.st # "ok" THEN l
       ELSE LET exprs == Call("parse_comma_separated", <<"expr", toks, l.i>>)
            IN IF exprs.st # "ok" THEN exprs
               ELSE LET r == Call("expect_token", <<toks, exprs.i, ")">>)
                    IN IF r.st # "ok" THEN r ELSE Ok(r.i, exprs.v)

parse_values(toks, i) ==
    LET v == Call("parse_comma_separated", <<"values_row", toks, i>>)
    IN IF v.st # "ok" THEN v ELSE Ok(v.i, <<"Values", v.v>>)

parse_cte(toks, i) ==
    LET name == Call("parse_identifier", <<toks, i>>)
    IN IF name.st # "ok" THEN name
       ELSE LET cols == Call("parse_parenthesized_column_list", <<toks, name.i, TRUE>>)
            IN IF cols.st # "ok" THEN cols
               ELSE LET a == Call("expect_keyword", <<toks, cols.i, "AS">>)
                    IN IF a.st # "ok" THEN a
                       ELSE LET l == Call("expect_token", <<toks, a.i, "(">>)
                            IN IF l.st # "ok" THEN l
                               ELSE LET q == Call("parse_query", <<toks, l.i>>)
                                    IN IF q.st # "ok" THEN q
                                       ELSE LET r == Call("expect_token", <<toks, q.i, ")">>)
                                            IN IF r.st # "ok" THEN r
                                               ELSE Ok(r.i, <<"Cte", <<"TableAlias", name.v, cols.v>>, q.v>>)

\* fn parse_set_operator(token)
parse_set_operator(token) ==
    CASE token = "UNION" -> "Union"
      [] token = "EXCEPT" -> "Except"
      [] token = "INTERSECT" -> "Intersect"
      [] OTHER -> "None"

\* parse_query_body with the operand of a set operator read at precedence 0
parse_query_body_any_precedence(toks, i, precedence) ==
    LET s == Call("parse_keyword", <<toks, i, "SELECT">>)
        l == Call("consume_token", <<toks, i, "(">>)
        vs == Call("parse_keyword", <<toks, i, "VALUES">>)
        v1 == Call("parse_keyword", <<toks, i, "VALUE">>)
        first ==
          IF s[1]
          THEN LET sel == Call("parse_select", <<toks, s[2]>>)
               IN IF sel.st # "ok" THEN sel ELSE Ok(sel.i, <<"Select", sel.v>>)
          ELSE IF l[1]
          THEN LET q == Call("parse_query", <<toks, l[2]>>)
               IN IF q.st # "ok" THEN q
                  ELSE LET r == Call("expect_token", <<toks, q.i, ")">>)
                       IN IF r.st # "ok" THEN r ELSE Ok(r.i, <<"Query", q.v>>)
          ELSE IF vs[1]
          THEN LET v == Call("parse_values", <<toks, vs[2]>>)
               IN IF v.st # "ok" THEN v ELSE Ok(v.i, <<"Values", v.v>>)
          ELSE IF v1[1]
          THEN LET v == Call("parse_values", <<toks, v1[2]>>)
               IN IF v.st # "ok" THEN v ELSE Ok(v.i, <<"Value", v.v>>)
          ELSE expected(i, "SELECT, VALUES, or a subquery in the query body",
                        peek_token(toks, i))
    IN IF first.st # "ok" THEN first
       ELSE Call("parse_query_body_loop", <<toks, first.i, first.v, 0, 0>>)


parse_query_body_loop(toks, i, expr, precedence, n) ==
    IF n > LoopBound(toks) THEN Diverge(i)
    ELSE LET op == Call("parse_set_operator", <<peek_token(toks, i)>>)
             next_precedence == IF op \in {"Union", "Except"} THEN 10 ELSE 20
         IN IF op = "None" THEN Ok(i, expr)
            ELSE IF precedence >= next_precedence THEN Ok(i, expr)
            ELSE LET j == next_token(toks, i)[2]
                     all == Call("parse_keyword", <<toks, j, "ALL">>)
                     right == Call("parse_query_body", <<toks, all[2], next_precedence>>)
                 IN IF right.st # "ok" THEN right
                    ELSE Call("parse_query_body_loop", <<toks, right.i,
                             <<"SetOperation", expr, op, all[1], right.v>>, precedence, n + 1>>)

parse_query_body(toks, i, precedence) ==
    LET s == Call("parse_keyword", <<toks, i, "SELECT">>)
        l == Call("consume_token", <<toks, i, "(">>)
        vs == Call("parse_keyword", <<toks, i, "VALUES">>)
        v1 == Call("parse_keyword", <<toks, i, "VALUE">>)
        first ==
          IF s[1]
          THEN LET sel == Call("parse_select", <<toks, s[2]>>)
               IN IF sel.st # "ok" THEN sel ELSE Ok(sel.i, <<"Select", sel.v>>)
          ELSE IF l[1]
          THEN LET q == Call("parse_query", <<toks, l[2]>>)
               IN IF q.st # "ok" THEN q
                  ELSE LET r == Call("expect_token", <<toks, q.i, ")">>)
                       IN IF r.st # "ok" THEN r ELSE Ok(r.i, <<"Query", q.v>>)
          ELSE IF vs[1]
          THEN LET v == Call("parse_values", <<toks, vs[2]>>)
               IN IF v.st # "ok" THEN v ELSE Ok(v.i, <<"Values", v.v>>)
          ELSE IF v1[1]
          THEN LET v == Call("parse_values", <<toks, v1[2]>>)
               IN IF v.st # "ok" THEN v ELSE Ok(v.i, <<"Value", v.v>>)
          ELSE expected(i, "SELECT, VALUES, or a subquery in the query body",
                        peek_token(toks, i))
    IN IF first.st # "ok" THEN first
       ELSE Call("parse_query_body_loop", <<toks, first.i, first.v, precedence, 0>>)

expect_one_of_keywords(toks, i, kws) ==
    LET r == Call("parse_one_of_keywords", <<toks, i, kws>>)
    IN IF r[1] # "None" THEN Ok(r[2], r[1])
       ELSE expected(i, <<"one of", kws>>, peek_token(toks, i))

parse_fetch(toks, i) ==
    LET fn == Call("expect_one_of_keywords", <<toks, i, {"FIRST", "NEXT"}>>)
    IN IF fn.st # "ok" THEN fn
       ELSE LET r == Call("parse_one_of_keywords", <<toks, fn.i, {"ROW", "ROWS"}>>)
                qp == IF r[1] # "None" THEN Ok(r[2], <<None, FALSE>>)
                      ELSE LET q == Call("parse_value", <<toks, fn.i>>)
                           IN IF q.st # "ok" THEN q
                              ELSE LET pct == Call("parse_keyword", <<toks, q.i, "PERCENT">>)
                                       rr == Call("expect_one_of_keywords", <<toks, pct[2], {"ROW", "ROWS"}>>)
                                   IN IF rr.st # "ok" THEN rr
                                      ELSE Ok(rr.i, <<Some(<<"Value", q.v>>), pct[1]>>)
            IN IF qp.st # "ok" THEN qp
               ELSE LET only == Call("parse_keyword", <<toks, qp.i, "ONLY">>)
                        wt == Call("parse_keywords", <<toks, qp.i, <<"WITH", "TIES">>>>)
                    IN IF only[1] THEN Ok(only[2], <<"Fetch", FALSE, qp.v[2], qp.v[1]>>)
                       ELSE IF wt[1] THEN Ok(wt[2], <<"Fetch", TRUE, qp.v[2], qp.v[1]>>)
                       ELSE expected(qp.i, "one of ONLY or WITH TIES", peek_token(toks, qp.i))

parse_query(toks, i) ==
    LET w == Call("parse_keyword", <<toks, i, "WITH">>)
        ctes == IF w[1] THEN Call("parse_comma_separated", <<"cte", toks, w[2]>>) ELSE Ok(i, <<>>)
    IN IF ctes.st # "ok" THEN ctes
       ELSE LET body == Call("parse_query_body", <<toks, ctes.i, 0>>)
            IN IF body.st # "ok" THEN body
               ELSE LET ob == Call("parse_keywords", <<toks, body.i, <<"ORDER", "BY">>>>)
                        order_by == IF ob[1] THEN Call("parse_comma_separated", <<"order_by_expr", toks, ob[2]>>)
                                    ELSE Ok(body.i, <<>>)
                    IN IF order_by.st # "ok" THEN order_by
                       ELSE LET lk == Call("parse_keyword", <<toks, order_by.i, "LIMIT">>)
                                lim == IF lk[1] THEN Call("parse_mysql_limit", <<toks, lk[2]>>)
                                       ELSE Ok(order_by.i, <<None, None>>)
                            IN IF lim.st # "ok" THEN lim
                               ELSE LET f == Call("parse_keyword", <<toks, lim.i, "FOR">>)
                                        u == IF f[1] THEN Call("expect_keyword", <<toks, f[2], "UPDATE">>)
                                             ELSE Ok(lim.i, <<>>)
                                    IN IF u.st # "ok" THEN u
                                       ELSE LET fk == Call("parse_keyword", <<toks, u.i, "FETCH">>)
                                                fetch == IF fk[1]
                                                         THEN LET ft == Call("parse_fetch", <<toks, fk[2]>>)
                                                              IN IF ft.st # "ok" THEN ft
                                                                 ELSE Ok(ft.i, Some(ft.v))
                                                         ELSE Ok(u.i, None)
                                            IN IF fetch.st # "ok" THEN fetch
                                               ELSE Ok(fetch.i, <<"Query", ctes.v, body.v, lim.v[1],
                                                       order_by.v, lim.v[2], f[1], fetch.v>>)

parse_top(toks, i) ==
    LET l == Call("consume_token", <<toks, i, "(">>)
        quantity ==
          IF l[1]
          THEN LET e == Call("parse_expr", <<toks, l[2]>>)
               IN IF e.st # "ok" THEN e
                  ELSE LET r == Call("expect_token", <<toks, e.i, ")">>)
                       IN IF r.st # "ok" THEN r ELSE Ok(r.i, Some(e.v))
          ELSE LET v == Call("parse_number_value", <<toks, i>>)
               IN IF v.st # "ok" THEN v ELSE Ok(v.i, Some(<<"Value", v.v>>))
    IN IF quantity.st # "ok" THEN quantity
       ELSE LET pct == Call("parse_keyword", <<toks, quantity.i, "PERCENT">>)
                wt == Call("parse_keywords", <<toks, pct[2], <<"WITH", "TIES">>>>)
            IN Ok(wt[2], <<"Top", wt[1], pct[1], quantity.v>>)

parse_comment_for_select(toks, i) ==
    LET nt == next_token_no_ignore_comment(toks, i)
    IN IF nt[1] = "BC" THEN Ok(nt[2], Some("BC"))
       ELSE LET b == prev_token(toks, nt[2])
            IN IF b = PanicIndex THEN Panic(nt[2], "prev_token") ELSE Ok(b, None)

parse_force_for_select(toks, i) ==
    LET k == Call("parse_keyword", <<toks, i, "INDEX">>)
    IN IF ~k[1]
       THEN expected(i, "an error in your SQL syntax,force index {}", peek_token(toks, i))
       ELSE LET l == Call("expect_token", <<toks, k[2], "(">>)
            IN IF l.st # "ok" THEN l
               ELSE LET f == Call("parse_identifier", <<toks, l.i>>)
                    IN IF f.st # "ok" THEN f
                       ELSE LET r == Call("expect_token", <<toks, f.i, ")">>)
                            IN IF r.st # "ok" THEN r ELSE Ok(r.i, f.v)

parse_join_constraint(toks, i, natural) ==
    LET on == Call("parse_keyword", <<toks, i, "ON">>)
        using == Call("parse_keyword", <<toks, i, "USING">>)
    IN IF natural THEN Ok(i, <<"Natural">>)
       ELSE IF on[1]
       THEN LET c == Call("parse_expr", <<toks, on[2]>>)
            IN IF c.st # "ok" THEN c ELSE Ok(c.i, <<"On", c.v>>)
       ELSE IF using[1]
       THEN LET cols == Call("parse_parenthesized_column_list", <<toks, using[2], FALSE>>)
            IN IF cols.st # "ok" THEN cols ELSE Ok(cols.i, <<"Using", cols.v>>)
       ELSE expected(i, "ON, or USING after JOIN", peek_token(toks, i))

parse_derived_table_factor(toks, i, lateral) ==
    LET q == Call("parse_query", <<toks, i>>)
    IN IF q.st # "ok" THEN q
       ELSE LET r == Call("expect_token", <<toks, q.i, ")">>)
            IN IF r.st # "ok" THEN r
               ELSE LET a == Call("parse_optional_table_alias", <<toks, r.i, RESERVED_FOR_TABLE_ALIAS>>)
                    IN IF a.st # "ok" THEN a
                       ELSE Ok(a.i, <<"Derived", lateral, q.v, a.v>>)

\* the tail of parse_table_factor without the rewind of an unmatched WITH
parse_table_factor_tail_keeps_with(toks, i, name, args, force0, alias) ==
    LET f2 == Call("parse_keyword", <<toks, i, "FORCE">>)
        force == IF f2[1]
                 THEN LET f == Call("parse_force_for_select", <<toks, f2[2]>>)
                      IN IF f.st # "ok" THEN f ELSE Ok(f.i, Some(f.v))
                 ELSE Ok(i, force0)
    IN IF force.st # "ok" THEN force
       ELSE LET w == Call("parse_keyword", <<toks, force.i, "WITH">>)
                l == Call("consume_token", <<toks, w[2], "(">>)
                with_hints ==
                  IF ~w[1] THEN Ok(force.i, <<>>)
                  ELSE IF l[1]
                  THEN LET h == Call("parse_comma_separated", <<"expr", toks, l[2]>>)
                       IN IF h.st # "ok" THEN h
                          ELSE LET r == Call("expect_token", <<toks, h.i, ")">>)
                               IN IF r.st # "ok" THEN r ELSE Ok(r.i, h.v)
                  ELSE Ok(w[2], <<>>)
            IN IF with_hints.st # "ok" THEN with_hints
               ELSE Ok(with_hints.i, <<"Table", name, alias, force.v, args, with_hints.v>>)

\* the second FORCE and the WITH hints of a named table
parse_table_factor_tail(toks, i, name, args, force0, alias) ==
    LET f2 == Call("parse_keyword", <<toks, i, "FORCE">>)
        force == IF f2[1]
                 THEN LET f == Call("parse_force_for_select", <<toks, f2[2]>>)
                      IN IF f.st # "ok" THEN f ELSE Ok(f.i, Some(f.v))
                 ELSE Ok(i, force0)
    IN IF force.st # "ok" THEN force
       ELSE LET w == Call("parse_keyword", <<toks, force.i, "WITH">>)
                l == Call("consume_token", <<toks, w[2], "(">>)
                with_hints ==
                  IF ~w[1] THEN Ok(force.i, <<>>)
                  ELSE IF l[1]
                  THEN LET h == Call("parse_comma_separated", <<"expr", toks, l[2]>>)
                       IN IF h.st # "ok" THEN h
                          ELSE LET r == Call("expect_token", <<toks, h.i, ")">>)
                               IN IF r.st # "ok" THEN r ELSE Ok(r.i, h.v)
                  ELSE LET b == prev_token(toks, w[2])
                       IN IF b = PanicIndex THEN Panic(w[2], "prev_token") ELSE Ok(b, <<>>)
            IN IF with_hints.st # "ok" THEN with_hints
               ELSE Ok(with_hints.i, <<"Table", name, alias, force.v, args, with_hints.v>>)

parse_table_factor(toks, i) ==
    LET lat == Call("parse_keyword", <<toks, i, "LATERAL">>)
        l == Call("consume_token", <<toks, i, "(">>)
    IN IF lat[1]
       THEN LET ll == Call("consume_token", <<toks, lat[2], "(">>)
            IN IF ~ll[1] THEN expected(lat[2], "subquery after LATERAL", peek_token(toks, lat[2]))
               ELSE Call("parse_derived_table_factor", <<toks, ll[2], TRUE>>)
       ELSE IF l[1]
       THEN LET d == maybe_parse(Call("parse_derived_table_factor", <<toks, l[2], FALSE>>), l[2])
            IN IF d.st # "none" THEN d
               ELSE LET tj == Call("parse_table_and_joins", <<toks, l[2]>>)
                    IN IF tj.st # "ok" THEN tj
                       ELSE LET r == Call("expect_token", <<toks, tj.i, ")">>)
                            IN IF r.st # "ok" THEN r ELSE Ok(r.i, <<"NestedJoin", tj.v>>)
       ELSE LET name == Call("parse_object_name", <<toks, i>>)
            IN IF name.st # "ok" THEN name
               ELSE LET al == Call("consume_token", <<toks, name.i, "(">>)
                        args == IF al[1] THEN Call("parse_optional_args", <<toks, al[2]>>) ELSE Ok(name.i, <<>>)
                    IN IF args.st # "ok" THEN args
                       ELSE LET f1 == Call("parse_keyword", <<toks, args.i, "FORCE">>)
                                force == IF f1[1]
                                         THEN LET f == Call("parse_force_for_select", <<toks, f1[2]>>)
                                              IN IF f.st # "ok" THEN f ELSE Ok(f.i, Some(f.v))
                                         ELSE Ok(args.i, None)
                            IN IF force.st # "ok" THEN force
                               ELSE LET a == Call("parse_optional_table_alias", <<toks, force.i,
                                                                        RESERVED_FOR_TABLE_ALIAS>>)
                                    IN IF a.st # "ok" THEN a
                                       ELSE Call("parse_table_factor_tail", <<toks, a.i, name.v, args.v,
                                                                    force.v, a.v>>)

\* one iteration of the loop of parse_table_and_joins: v = <<"break">> or <<"join", Join>>
parse_join(toks, i) ==
    LET cross == Call("parse_keyword", <<toks, i, "CROSS">>)
        outer == Call("parse_keyword", <<toks, i, "OUTER">>)
    IN IF cross[1]
       THEN LET j == Call("parse_keyword", <<toks, cross[2], "JOIN">>)
                a == Call("parse_keyword", <<toks, cross[2], "APPLY">>)
            IN IF ~j[1] /\ ~a[1]
               THEN expected(cross[2], "JOIN or APPLY after CROSS", peek_token(toks, cross[2]))
               ELSE LET rel == Call("parse_table_factor", <<toks, IF j[1] THEN j[2] ELSE a[2]>>)
                    IN IF rel.st # "ok" THEN rel
                       ELSE Ok(rel.i, <<"join", <<"Join", rel.v,
                                        <<(IF j[1] THEN "CrossJoin" ELSE "CrossApply")>> >> >>)
       ELSE IF outer[1]
       THEN LET a == Call("expect_keyword", <<toks, outer[2], "APPLY">>)
            IN IF a.st # "ok" THEN a
               ELSE LET rel == Call("parse_table_factor", <<toks, a.i>>)
                    IN IF rel.st # "ok" THEN rel
                       ELSE Ok(rel.i, <<"join", <<"Join", rel.v, <<"OuterApply">> >> >>)
       ELSE LET nat == Call("parse_keyword", <<toks, i, "NATURAL">>)
                natural == nat[1]
                pk == peek_token(toks, nat[2])
                peek_keyword == IF IsWord(pk) THEN pk ELSE "NoKeyword"
                jot ==
                  IF peek_keyword \in {"INNER", "JOIN"}
                  THEN LET inn == Call("parse_keyword", <<toks, nat[2], "INNER">>)
                           j == Call("expect_keyword", <<toks, inn[2], "JOIN">>)
                       IN IF j.st # "ok" THEN j ELSE Ok(j.i, "Inner")
                  ELSE IF peek_keyword \in {"LEFT", "RIGHT", "FULL"}
                  THEN LET n1 == next_token(toks, nat[2])[2]
                           o == Call("parse_keyword", <<toks, n1, "OUTER">>)
                           j == Call("expect_keyword", <<toks, o[2], "JOIN">>)
                       IN IF j.st # "ok" THEN j
                          ELSE Ok(j.i, CASE peek_keyword = "LEFT" -> "LeftOuter"
                                         [] peek_keyword = "RIGHT" -> "RightOuter"
                                         [] OTHER -> "FullOuter")
                  ELSE IF peek_keyword = "OUTER"
                  THEN expected(nat[2], "LEFT, RIGHT, or FULL", pk)
                  ELSE IF natural
                  THEN expected(nat[2], "a join type after NATURAL", pk)
                  ELSE Ok(nat[2], "break")
            IN IF jot.st # "ok" THEN jot
               ELSE IF jot.v = "break" THEN Ok(jot.i, <<"break">>)
               ELSE LET rel == Call("parse_table_factor", <<toks, jot.i>>)
                    IN IF rel.st # "ok" THEN rel
                       ELSE LET jc == Call("parse_join_constraint", <<toks, rel.i, natural>>)
                            IN IF jc.st # "ok" THEN jc
                               ELSE Ok(jc.i, <<"join", <<"Join", rel.v, <<jot.v, jc.v>> >> >>)

parse_joins_loop(toks, i, relation, joins, n) ==
    IF n > LoopBound(toks) THEN Diverge(i)
    ELSE LET j == Call("parse_join", <<toks, i>>)
         IN IF j.st # "ok" THEN j
            ELSE IF j.v[1] = "break" THEN Ok(j.i, <<"TableWithJoins", relation, joins>>)
            ELSE Call("parse_joins_loop", <<toks, j.i, relation, Append(joins, j.v[2]), n + 1>>)

parse_table_and_joins(toks, i) ==
    LET relation == Call("parse_table_factor", <<toks, i>>)
    IN IF relation.st # "ok" THEN relation
       ELSE Call("parse_joins_loop", <<toks, relation.i, relation.v, <<>>, 0>>)

\* the clauses of parse_select after the projection
parse_select_tail(toks, i, comment, distinct, top, projection) ==
    LET fk == Call("parse_keyword", <<toks, i, "FROM">>)
        from == IF fk[1] THEN Call("parse_comma_separated", <<"table_and_joins", toks, fk[2]>>)
                ELSE Ok(i, <<>>)
    IN IF from.st # "ok" THEN from
       ELSE LET wk == Call("parse_keyword", <<toks, from.i, "WHERE">>)
                selection == IF wk[1]
                             THEN LET e == Call("parse_expr", <<toks, wk[2]>>)
                                  IN IF e.st # "ok" THEN e ELSE Ok(e.i, Some(e.v))
                             ELSE Ok(from.i, None)
            IN IF selection.st # "ok" THEN selection
               ELSE LET gk == Call("parse_keywords", <<toks, selection.i, <<"GROUP", "BY">>>>)
                        group_by == IF gk[1] THEN Call("parse_comma_separated", <<"expr", toks, gk[2]>>)
                                    ELSE Ok(selection.i, <<>>)
                    IN IF group_by.st # "ok" THEN group_by
                       ELSE LET hk == Call("parse_keyword", <<toks, group_by.i, "HAVING">>)
                                having == IF hk[1]
                                          THEN LET e == Call("parse_expr", <<toks, hk[2]>>)
                                               IN IF e.st # "ok" THEN e ELSE Ok(e.i, Some(e.v))
                                          ELSE Ok(group_by.i, None)
                            IN IF having.st # "ok" THEN having
                               ELSE Ok(having.i, <<"Select", comment, distinct, top, projection,
                                                   from.v, selection.v, group_by.v, having.v>>)

parse_select(toks, i) ==
    LET comment == Call("parse_comment_for_select", <<toks, i>>)
    IN IF comment.st # "ok" THEN comment
       ELSE LET distinct == Call("parse_all_or_distinct", <<toks, comment.i>>)
            IN IF distinct.st # "ok" THEN distinct
               ELSE LET tk == Call("parse_keyword", <<toks, distinct.i, "TOP">>)
                        top == IF tk[1]
                               THEN LET t == Call("parse_top", <<toks, tk[2]>>)
                                    IN IF t.st # "ok" THEN t ELSE Ok(t.i, Some(t.v))
                               ELSE Ok(distinct.i, None)
                    IN IF top.st # "ok" THEN top
                       ELSE LET projection == Call("parse_comma_separated", <<"select_item", toks, top.i>>)
                            IN IF projection.st # "ok" THEN projection
                               ELSE Call("parse_select_tail", <<toks, projection.i, comment.v, distinct.v,
                                                      top.v, projection.v>>)

-----------------------------------------------------------------------------
(* Inputs                                                                  *)

Dialects == {"MySql", "Generic"}

\* the token vector of a text whose lexemes are separated by single spaces
RECURSIVE Spaced(_)
Spaced(s) == IF Len(s) <= 1 THEN s ELSE <<Head(s), "WS">> \o Spaced(Tail(s))

\* the binary infix operators, each with the tokens that spell it and the
\* BinaryOperator that parse_infix builds for it
InfixOps ==
    { [toks |-> <<t>>, op |-> RegularBinaryOperator(t)] :
        t \in {"OR", "AND", "=", "<>", "<", "<=", ">", ">=", "LIKE", "|", "^", "&",
               "+", "-", "*", "/", "%", "||", "~", "<<", ">>"} }
    \cup { [toks |-> <<"NOT", "LIKE">>, op |-> "NotLike"] }

\* `x a y b z`
PairInputs ==
    { [family |-> "pair", a |-> a, b |-> b,
       toks |-> Spaced(<<"x">> \o a.toks \o <<"y">> \o b.toks \o <<"z">>)] :
        a \in InfixOps, b \in InfixOps }

\* bounds of a BETWEEN: the tokens and the expression they spell
BoundForms ==
    { [toks |-> <<"1">>, ast |-> <<"Value", <<"Number", "1">> >>],
      [toks |-> <<"1", "+", "2">>,
       ast |-> <<"BinaryOp", <<"Value", <<"Number", "1">> >>, "Plus",
                             <<"Value", <<"Number", "2">> >> >>],
      [toks |-> <<"y", "|", "1">>,
       ast |-> <<"BinaryOp", <<"Identifier", "y">>, "BitwiseOr",
                             <<"Value", <<"Number", "1">> >> >>],
      [toks |-> <<"-", "1">>, ast |-> <<"UnaryOp", "Minus", <<"Value", <<"Number", "1">> >> >>],
      [toks |-> <<"~", "1">>, ast |-> <<"BitwiseNested", <<"Value", <<"Number", "1">> >> >>] }

\* what follows the upper bound
BetweenTails ==
    { <<>>, <<"AND", "z">>, <<"OR", "z">>, <<"IS", "NULL">>, <<"IS", "NOT", "NULL">>,
      <<"=", "z">>, <<"<", "z">>, <<"AND", "z", "IS", "NOT", "NULL">> }

\* `x [NOT] BETWEEN low AND high tail`
BetweenInputs ==
    { [family |-> "between", negated |-> neg, low |-> lo, high |-> hi, tail |-> tl,
       toks |-> Spaced(<<"x">> \o (IF neg THEN <<"NOT">> ELSE <<>>) \o <<"BETWEEN">>
                       \o lo.toks \o <<"AND">> \o hi.toks \o tl)] :
        neg \in BOOLEAN, lo \in BoundForms, hi \in BoundForms, tl \in BetweenTails }

ExprInputs == PairInputs \cup BetweenInputs

-----------------------------------------------------------------------------
(* Parser::new(tokens, dialect_type) followed by parse_expr()              *)

InitExpr ==
    /\ \E inp \in ExprInputs : tokens = inp.toks /\ hist = inp
    /\ dialect_type \in Dialects
    /\ index = 0
    /\ pc = "parse_expr"
    /\ stmts = <<>>
    /\ expecting_statement_delimiter = FALSE
    /\ ret = None

ParseExpr ==
    /\ pc = "parse_expr"
    /\ \E r \in {Call("parse_expr", <<tokens, index>>)} :
          /\ index' = r.i
          /\ ret' = <<r.st, r.v>>
    /\ pc' = "done"
    /\ UNCHANGED <<tokens, dialect_type, stmts, expecting_statement_delimiter, hist>>

NextExpr == ParseExpr

SpecExpr == InitExpr /\ [][NextExpr]_vars

-----------------------------------------------------------------------------
(* Precedence of binary operators                                          *)

\* the documented precedence table of the binary infix operators
TablePrecedence(op) ==
    CASE op = "Or" -> 5
      [] op = "And" -> 10
      [] op \in {"Eq", "NotEq", "Lt", "LtEq", "Gt", "GtEq", "Like", "NotLike"} -> 20
      [] op = "BitwiseOr" -> 21
      [] op = "BitwiseXor" -> 22
      [] op = "BitwiseAnd" -> 23
      [] op \in {"Plus", "Minus"} -> 30
      [] op \in {"Multiply", "Divide", "Modulus", "StringConcat", "BitwiseNegate",
                 "BitwiseNegateLDisplacement", "BitwiseNegateRDisplacement"} -> 40

IdentX == <<"Identifier", "x">>
IdentY == <<"Identifier", "y">>
IdentZ == <<"Identifier", "z">>

\* C8: parse_expr on `x a y b z` yields BinaryOp(a, x, BinaryOp(b, y, z)) when
\* p(a) < p(b) and BinaryOp(b, BinaryOp(a, x, y), z) when p(a) >= p(b), for
\* every pair a, b of binary infix operators of the precedence table.
C8_PrattPrecedence ==
    (pc = "done" /\ hist.family = "pair") =>
        ret = <<"ok",
                IF TablePrecedence(hist.a.op) < TablePrecedence(hist.b.op)
                THEN <<"BinaryOp", IdentX, hist.a.op, <<"BinaryOp", IdentY, hist.b.op, IdentZ>> >>
                ELSE <<"BinaryOp", <<"BinaryOp", IdentX, hist.a.op, IdentY>>, hist.b.op, IdentZ>> >>

\* C8 witness: a pair with p(a) < p(b) parsed with the right operand nested,
\* and the whole input consumed
C8_Witness ==
    /\ pc = "done" /\ hist.family = "pair"
    /\ TablePrecedence(hist.a.op) < TablePrecedence(hist.b.op)
    /\ ret[1] = "ok" /\ ret[2][4][1] = "BinaryOp"
    /\ index = Len(tokens)

-----------------------------------------------------------------------------
(* BETWEEN                                                                 *)

\* the expression `node tail` when tail is applied to the whole of node
ApplyTail(node, tail) ==
    CASE tail = <<>> -> node
      [] tail = <<"AND", "z">> -> <<"BinaryOp", node, "And", IdentZ>>
      [] tail = <<"OR", "z">> -> <<"BinaryOp", node, "Or", IdentZ>>
      [] tail = <<"IS", "NULL">> -> <<"IsNull", node>>
      [] tail = <<"IS", "NOT", "NULL">> -> <<"IsNotNull", node>>
      [] tail = <<"=", "z">> -> <<"BinaryOp", node, "Eq", IdentZ>>
      [] tail = <<"<", "z">> -> <<"BinaryOp", node, "Lt", IdentZ>>
      [] tail = <<"AND", "z", "IS", "NOT", "NULL">> ->
             <<"BinaryOp", node, "And", <<"IsNotNull", IdentZ>> >>

\* C9: in `e [NOT] BETWEEN low AND high` the first AND after low is the
\* separator, each bound is the expression its own tokens spell, and an AND,
\* OR, IS or comparison that follows high is applied to the whole Between node.
C9_BetweenBounds ==
    (pc = "done" /\ hist.family = "between") =>
        ret = <<"ok", ApplyTail(<<"Between", IdentX, hist.negated, hist.low.ast, hist.high.ast>>,
                                hist.tail)>>

-----------------------------------------------------------------------------
(* The cursor on its own: next_token, prev_token, next_token_no_skip       *)

MaxCursorLen == 4      \* longest token vector of the cursor runs
MaxPastEOF == 3        \* how far past the end the cursor runs are followed

CursorAlphabet == {"a", "WS", "BC", ";"}

RECURSIVE SeqsUpTo(_, _)
SeqsUpTo(S, n) ==
    IF n = 0 THEN {<<>>}
    ELSE LET shorter == SeqsUpTo(S, n - 1)
         IN shorter \cup {Append(s, x) : s \in {t \in shorter : Len(t) = n - 1}, x \in S}

\* hist.calls holds the tokens returned by the next_token calls that no
\* prev_token has undone yet
InitCursor ==
    /\ tokens \in SeqsUpTo(CursorAlphabet, MaxCursorLen)
    /\ dialect_type = "MySql"
    /\ index = 0
    /\ pc = "cursor"
    /\ stmts = <<>>
    /\ expecting_statement_delimiter = FALSE
    /\ ret = None
    /\ hist = [family |-> "cursor", calls |-> <<>>]

CursorNext ==
    /\ pc = "cursor"
    /\ index < Len(tokens) + MaxPastEOF
    /\ LET nt == next_token(tokens, index)
       IN /\ index' = nt[2]
          /\ ret' = <<"next_token", nt[1]>>
          /\ hist' = [hist EXCEPT !.calls = Append(@, nt[1])]
    /\ UNCHANGED <<tokens, dialect_type, pc, stmts, expecting_statement_delimiter>>

\* one prev_token per next_token
CursorPrev ==
    /\ pc = "cursor"
    /\ hist.calls # <<>>
    /\ LET b == prev_token(tokens, index)
           n == Len(hist.calls)
       IN IF b = PanicIndex
          THEN /\ pc' = "panic"
               /\ UNCHANGED <<index, ret, hist>>
          ELSE /\ index' = b
               /\ ret' = <<"prev_token", hist.calls[n]>>
               /\ hist' = [hist EXCEPT !.calls = SubSeq(@, 1, n - 1)]
               /\ pc' = pc
    /\ UNCHANGED <<tokens, dialect_type, stmts, expecting_statement_delimiter>>

\* next_token_no_skip moves the cursor one token, whitespace included
CursorNoSkip ==
    /\ pc = "cursor"
    /\ index < Len(tokens) + MaxPastEOF
    /\ LET nt == next_token_no_skip(tokens, index)
       IN /\ index' = nt[2]
          /\ ret' = <<"next_token_no_skip", nt[1]>>
          /\ hist' = [hist EXCEPT !.calls = <<>>]
    /\ UNCHANGED <<tokens, dialect_type, pc, stmts, expecting_statement_delimiter>>

NextCursor == CursorNext \/ CursorPrev \/ CursorNoSkip

SpecCursor == InitCursor /\ [][NextCursor]_vars

\* C10: after next_token returned t and prev_token was called, peek_token and
\* the following next_token return t again; with one prev_token per
\* next_token the assertion index > 0 never fails, also past EOF.
C10_PrevUndoesNext ==
    /\ pc # "panic"
    /\ (pc = "cursor" /\ ret[1] = "prev_token") =>
          /\ peek_token(tokens, index) = ret[2]
          /\ next_token(tokens, index)[1] = ret[2]

\* C10 witness: next_token was called twice at the end of a vector holding
\* whitespace, both calls returned EOF, and the second has been undone
C10_Witness ==
    /\ pc = "cursor" /\ ret = <<"prev_token", EOF>>
    /\ hist.calls # <<>> /\ hist.calls[Len(hist.calls)] = EOF
    /\ index > Len(tokens)
    /\ \E k \in 1..Len(tokens) : IsWhitespace(tokens[k])

-----------------------------------------------------------------------------
(* Statements                                                              *)

\* a branch of the parser that this model does not follow; no input of the
\* specifications below reaches one
Unmodelled(i, what) == [st |-> "unmodelled", i |-> i, v |-> <<"unmodelled", what>>]

parse_desc(toks, i) ==
    LET n == Call("parse_object_name", <<toks, i>>)
    IN IF n.st # "ok" THEN n ELSE Ok(n.i, <<"Desc", n.v>>)

\* USE db without the test for EOF
parse_use_any_tail(toks, i) ==
    LET d == Call("parse_identifier", <<toks, i>>)
    IN IF d.st # "ok" THEN d ELSE Ok(d.i, <<"ChangeDatabase", d.v>>)

parse_use(toks, i) ==
    LET d == Call("parse_identifier", <<toks, i>>)
    IN IF d.st # "ok" THEN d
       ELSE LET e == Call("consume_token", <<toks, d.i, EOF>>)
            IN IF e[1] THEN Ok(e[2], <<"ChangeDatabase", d.v>>)
               ELSE expected(d.i, "Use Wrong syntax", peek_token(toks, d.i))

parse_unlock(toks, i) ==
    LET t == Call("parse_keyword", <<toks, i, "TABLES">>)
        e == IF t[1] THEN Call("consume_token", <<toks, t[2], EOF>>) ELSE <<FALSE, t[2]>>
    IN IF t[1] /\ e[1] THEN Ok(e[2], <<"UNLock", TRUE>>)
       ELSE expected(e[2], "UNLOCK Wrong syntax", peek_token(toks, e[2]))

parse_assert(toks, i) ==
    LET c == Call("parse_expr", <<toks, i>>)
    IN IF c.st # "ok" THEN c
       ELSE LET a == Call("parse_keyword", <<toks, c.i, "AS">>)
            IN IF a[1]
               THEN LET m == Call("parse_expr", <<toks, a[2]>>)
                    IN IF m.st # "ok" THEN m ELSE Ok(m.i, <<"Assert", c.v, Some(m.v)>>)
               ELSE Ok(c.i, <<"Assert", c.v, None>>)

parse_delete(toks, i) ==
    LET f == Call("expect_keyword", <<toks, i, "FROM">>)
    IN IF f.st # "ok" THEN f
       ELSE LET n == Call("parse_object_name", <<toks, f.i>>)
            IN IF n.st # "ok" THEN n
               ELSE LET w == Call("parse_keyword", <<toks, n.i, "WHERE">>)
                    IN IF w[1]
                       THEN LET e == Call("parse_expr", <<toks, w[2]>>)
                            IN IF e.st # "ok" THEN e
                               ELSE Ok(e.i, <<"Delete", n.v, Some(e.v)>>)
                       ELSE Ok(n.i, <<"Delete", n.v, None>>)

parse_commit_rollback_chain(toks, i) ==
    LET t == Call("parse_one_of_keywords", <<toks, i, {"TRANSACTION", "WORK"}>>)
        a == Call("parse_keyword", <<toks, t[2], "AND">>)
    IN IF a[1]
       THEN LET no == Call("parse_keyword", <<toks, a[2], "NO">>)
                c == Call("expect_keyword", <<toks, no[2], "CHAIN">>)
            IN IF c.st # "ok" THEN c ELSE Ok(c.i, ~no[1])
       ELSE Ok(a[2], FALSE)

parse_commit(toks, i) ==
    LET c == Call("parse_commit_rollback_chain", <<toks, i>>)
    IN IF c.st # "ok" THEN c ELSE Ok(c.i, <<"Commit", c.v>>)

parse_rollback(toks, i) ==
    LET c == Call("parse_commit_rollback_chain", <<toks, i>>)
    IN IF c.st # "ok" THEN c ELSE Ok(c.i, <<"Rollback", c.v>>)

\* one iteration of the loop of parse_transaction_modes: v = <<"break">> or <<"mode", m>>
parse_transaction_mode(toks, i, required) ==
    LET il == Call("parse_keywords", <<toks, i, <<"ISOLATION", "LEVEL">>>>)
        ro == Call("parse_keywords", <<toks, i, <<"READ", "ONLY">>>>)
        rw == Call("parse_keywords", <<toks, i, <<"READ", "WRITE">>>>)
    IN IF il[1]
       THEN LET ru == Call("parse_keywords", <<toks, il[2], <<"READ", "UNCOMMITTED">>>>)
                rc == Call("parse_keywords", <<toks, il[2], <<"READ", "COMMITTED">>>>)
                rr == Call("parse_keywords", <<toks, il[2], <<"REPEATABLE", "READ">>>>)
                se == Call("parse_keyword", <<toks, il[2], "SERIALIZABLE">>)
            IN IF ru[1] THEN Ok(ru[2], <<"mode", <<"IsolationLevel", "ReadUncommitted">> >>)
               ELSE IF rc[1] THEN Ok(rc[2], <<"mode", <<"IsolationLevel", "ReadCommitted">> >>)
               ELSE IF rr[1] THEN Ok(rr[2], <<"mode", <<"IsolationLevel", "RepeatableRead">> >>)
               ELSE IF se[1] THEN Ok(se[2], <<"mode", <<"IsolationLevel", "Serializable">> >>)
               ELSE expected(il[2], "isolation level", peek_token(toks, il[2]))
       ELSE IF ro[1] THEN Ok(ro[2], <<"mode", <<"AccessMode", "ReadOnly">> >>)
       ELSE IF rw[1] THEN Ok(rw[2], <<"mode", <<"AccessMode", "ReadWrite">> >>)
       ELSE IF required THEN expected(i, "transaction mode", peek_token(toks, i))
       ELSE Ok(i, <<"break">>)

RECURSIVE parse_transaction_modes_loop(_, _, _, _, _)
parse_transaction_modes_loop(toks, i, modes, required, n) ==
    IF n > LoopBound(toks) THEN Diverge(i)
    ELSE LET m == Call("parse_transaction_mode", <<toks, i, required>>)
         IN IF m.st # "ok" THEN m
            ELSE IF m.v[1] = "break" THEN Ok(m.i, modes)
            ELSE LET c == Call("consume_token", <<toks, m.i, ",">>)
                 IN Call("parse_transaction_modes_loop", <<toks, c[2], Append(modes, m.v[2]), c[1], n + 1>>)

parse_transaction_modes(toks, i) == Call("parse_transaction_modes_loop", <<toks, i, <<>>, FALSE, 0>>)

parse_start_transaction(toks, i) ==
    LET t == Call("expect_keyword", <<toks, i, "TRANSACTION">>)
    IN IF t.st # "ok" THEN t
       ELSE LET m == Call("parse_transaction_modes", <<toks, t.i>>)
            IN IF m.st # "ok" THEN m ELSE Ok(m.i, <<"StartTransaction", m.v>>)

parse_begin(toks, i) ==
    LET t == Call("parse_one_of_keywords", <<toks, i, {"TRANSACTION", "WORK"}>>)
        m == Call("parse_transaction_modes", <<toks, t[2]>>)
    IN IF m.st # "ok" THEN m ELSE Ok(m.i, <<"StartTransaction", m.v>>)

parse_set_variables_value(toks, i) ==
    LET token == peek_token(toks, i)
        v == Call("parse_value", <<toks, i>>)
    IN IF v.st = "ok" THEN Ok(v.i, <<"Literal", v.v>>)
       ELSE IF v.st # "err" THEN v
       ELSE IF IsWord(token) THEN Ok(v.i, <<"Ident", token>>)
       ELSE expected(v.i, "variable value", token)

parse_set(toks, i) ==
    LET modifier == Call("parse_one_of_keywords", <<toks, i, {"SESSION", "LOCAL"}>>)
        variable == Call("parse_identifier", <<toks, modifier[2]>>)
    IN IF variable.st # "ok" THEN variable
       ELSE LET eq == Call("consume_token", <<toks, variable.i, "=">>)
                to == IF eq[1] THEN eq ELSE Call("parse_keyword", <<toks, variable.i, "TO">>)
            IN IF to[1]
               THEN LET value == Call("parse_set_variables_value", <<toks, to[2]>>)
                    IN IF value.st # "ok" THEN value
                       ELSE LET e == Call("consume_token", <<toks, value.i, EOF>>)
                            IN IF ~e[1]
                               THEN LET w == Call("parse_keyword", <<toks, value.i, "WHERE">>)
                                    IN IF w[1]
                                       THEN LET s == Call("parse_expr", <<toks, w[2]>>)
                                            IN IF s.st # "ok" THEN s
                                               ELSE Ok(s.i, <<"AdminSetVariable", variable.v,
                                                               value.v, Some(s.v)>>)
                                       ELSE Ok(value.i, <<"AdminSetVariable", variable.v,
                                                          value.v, None>>)
                               ELSE Ok(e[2], <<"SetVariable", modifier[1] = "LOCAL",
                                               variable.v, value.v>>)
               ELSE IF variable.v = "TRANSACTION" /\ modifier[1] = "None"
               THEN LET m == Call("parse_transaction_modes", <<toks, variable.i>>)
                    IN IF m.st # "ok" THEN m ELSE Ok(m.i, <<"SetTransaction", m.v>>)
               ELSE IF variable.v = "NAMES" /\ modifier[1] = "None"
               THEN LET value == Call("parse_set_variables_value", <<toks, variable.i>>)
                    IN IF value.st # "ok" THEN value
                       ELSE Ok(value.i, <<"SetVariable", FALSE, variable.v, value.v>>)
               ELSE expected(variable.i, "equals sign or TO", peek_token(toks, variable.i))

-----------------------------------------------------------------------------
(* CREATE TABLE                                                            *)

parse_referential_action(toks, i) ==
    LET r == Call("parse_keyword", <<toks, i, "RESTRICT">>)
        c == Call("parse_keyword", <<toks, i, "CASCADE">>)
        sn == Call("parse_keywords", <<toks, i, <<"SET", "NULL">>>>)
        na == Call("parse_keywords", <<toks, i, <<"NO", "ACTION">>>>)
        sd == Call("parse_keywords", <<toks, i, <<"SET", "DEFAULT">>>>)
    IN IF r[1] THEN Ok(r[2], "Restrict")
       ELSE IF c[1] THEN Ok(c[2], "Cascade")
       ELSE IF sn[1] THEN Ok(sn[2], "SetNull")
       ELSE IF na[1] THEN Ok(na[2], "NoAction")
       ELSE IF sd[1] THEN Ok(sd[2], "SetDefault")
       ELSE expected(i, "one of RESTRICT, CASCADE, SET NULL, NO ACTION or SET DEFAULT",
                     peek_token(toks, i))

\* the loop of the REFERENCES branch of parse_column_option_def
RECURSIVE parse_references_loop(_, _, _, _, _)
parse_references_loop(toks, i, on_delete, on_update, n) ==
    IF n > LoopBound(toks) THEN Diverge(i)
    ELSE LET d == Call("parse_keywords", <<toks, i, <<"ON", "DELETE">>>>)
             u == Call("parse_keywords", <<toks, i, <<"ON", "UPDATE">>>>)
         IN IF on_delete = None /\ d[1]
            THEN LET a == Call("parse_referential_action", <<toks, d[2]>>)
                 IN IF a.st # "ok" THEN a
                    ELSE Call("parse_references_loop", <<toks, a.i, Some(a.v), on_update, n + 1>>)
            ELSE IF on_update = None /\ u[1]
            THEN LET a == Call("parse_referential_action", <<toks, u[2]>>)
                 IN IF a.st # "ok" THEN a
                    ELSE Call("parse_references_loop", <<toks, a.i, on_delete, Some(a.v), n + 1>>)
            ELSE Ok(i, <<on_delete, on_update>>)

\* the option of a ColumnOptionDef that takes one expression
parse_column_option_expr(toks, i, variant) ==
    LET e == Call("parse_expr", <<toks, i>>)
    IN IF e.st # "ok" THEN e ELSE Ok(e.i, <<variant, e.v>>)

\* the `option` of parse_column_option_def
parse_column_option(toks, i) ==
    LET kw(k) == Call("parse_keyword", <<toks, i, k>>)
        nn == Call("parse_keywords", <<toks, i, <<"NOT", "NULL">>>>)
        pk == Call("parse_keywords", <<toks, i, <<"PRIMARY", "KEY">>>>)
    IN IF nn[1] THEN Ok(nn[2], <<"NotNull">>)
       ELSE IF kw("AUTO_INCREMENT")[1] THEN Ok(kw("AUTO_INCREMENT")[2], <<"AutoIncrement">>)
       ELSE IF kw("NULL")[1] THEN Ok(kw("NULL")[2], <<"Null">>)
       ELSE IF kw("UNSIGNED")[1] THEN Ok(kw("UNSIGNED")[2], <<"Unsigned">>)
       ELSE IF kw("COMMENT")[1] THEN Call("parse_column_option_expr", <<toks, kw("COMMENT")[2], "Comment">>)
       ELSE IF kw("AFTER")[1] THEN Call("parse_column_option_expr", <<toks, kw("AFTER")[2], "After">>)
       ELSE IF kw("CHARACTER")[1]
       THEN LET s == Call("parse_keyword", <<toks, kw("CHARACTER")[2], "SET">>)
            IN IF s[1] THEN Call("parse_column_option_expr", <<toks, s[2], "Character">>)
               ELSE expected(s[2], "column character set ", peek_token(toks, s[2]))
       ELSE IF kw("COLLATE")[1] THEN Call("parse_column_option_expr", <<toks, kw("COLLATE")[2], "Collate">>)
       ELSE IF kw("DEFAULT")[1] THEN Call("parse_column_option_expr", <<toks, kw("DEFAULT")[2], "Default">>)
       ELSE IF pk[1] THEN Ok(pk[2], <<"Unique", TRUE>>)
       ELSE IF kw("UNIQUE")[1] THEN Ok(kw("UNIQUE")[2], <<"Unique", FALSE>>)
       ELSE IF kw("REFERENCES")[1]
       THEN LET ft == Call("parse_object_name", <<toks, kw("REFERENCES")[2]>>)
            IN IF ft.st # "ok" THEN ft
               ELSE LET rc == Call("parse_parenthesized_column_list", <<toks, ft.i, TRUE>>)
                    IN IF rc.st # "ok" THEN rc
                       ELSE LET l == Call("parse_references_loop", <<toks, rc.i, None, None, 0>>)
                            IN IF l.st # "ok" THEN l
                               ELSE Ok(l.i, <<"ForeignKey", ft.v, rc.v, l.v[1], l.v[2]>>)
       ELSE IF kw("CHECK")[1]
       THEN LET l == Call("expect_token", <<toks, kw("CHECK")[2], "(">>)
            IN IF l.st # "ok" THEN l
               ELSE LET e == Call("parse_expr", <<toks, l.i>>)
                    IN IF e.st # "ok" THEN e
                       ELSE LET r == Call("expect_token", <<toks, e.i, ")">>)
                            IN IF r.st # "ok" THEN r ELSE Ok(r.i, <<"Check", e.v>>)
       ELSE expected(i, "column option", peek_token(toks, i))

parse_column_option_def(toks, i) ==
    LET c == Call("parse_keyword", <<toks, i, "CONSTRAINT">>)
        name == IF c[1]
                THEN LET id == Call("parse_identifier", <<toks, c[2]>>)
                     IN IF id.st # "ok" THEN id ELSE Ok(id.i, Some(id.v))
                ELSE Ok(i, None)
    IN IF name.st # "ok" THEN name
       ELSE LET option == Call("parse_column_option", <<toks, name.i>>)
            IN IF option.st # "ok" THEN option
               ELSE Ok(option.i, <<"ColumnOptionDef", name.v, option.v>>)

\* the loop of parse_column_def
RECURSIVE parse_column_options_loop(_, _, _, _)
parse_column_options_loop(toks, i, options, n) ==
    IF n > LoopBound(toks) THEN Diverge(i)
    ELSE IF peek_token(toks, i) \in {EOF, ",", ")", ";"} THEN Ok(i, options)
    ELSE LET o == Call("parse_column_option_def", <<toks, i>>)
         IN IF o.st # "ok" THEN o
            ELSE Call("parse_column_options_loop", <<toks, o.i, Append(options, o.v), n + 1>>)

parse_column_def(toks, i) ==
    LET name == Call("parse_identifier", <<toks, i>>)
    IN IF name.st # "ok" THEN name
       ELSE LET data_type == Call("parse_data_type", <<toks, name.i>>)
            IN IF data_type.st # "ok" THEN data_type
               ELSE LET ck == Call("parse_keyword", <<toks, data_type.i, "COLLATE">>)
                        collation == IF ck[1]
                                     THEN LET o == Call("parse_object_name", <<toks, ck[2]>>)
                                          IN IF o.st # "ok" THEN o ELSE Ok(o.i, Some(o.v))
                                     ELSE Ok(data_type.i, None)
                    IN IF collation.st # "ok" THEN collation
                       ELSE LET options == Call("parse_column_options_loop", <<toks, collation.i, <<>>, 0>>)
                            IN IF options.st # "ok" THEN options
                               ELSE Ok(options.i, <<"ColumnDef", name.v, data_type.v,
                                                    collation.v, options.v>>)

\* -- MySQL index definitions --

\* self.prev_token() as a step of a parsing function
put_back(toks, i) ==
    LET b == prev_token(toks, i)
    IN IF b = PanicIndex THEN Panic(i, "prev_token") ELSE Ok(b, <<>>)

parse_alter_index_constraint(toks, i) ==
    LET c == Call("parse_keyword", <<toks, i, "CONSTRAINT">>)
    IN IF c[1]
       THEN LET id == Call("parse_identifier", <<toks, c[2]>>)
            IN IF id.st # "ok" THEN id ELSE Ok(id.i, Some(id.v))
       ELSE Ok(c[2], None)

parse_alter_index_storge_type(toks, i) ==
    LET f == Call("parse_keyword", <<toks, i, "FULLTEXT">>)
        s == Call("parse_keyword", <<toks, i, "SPATIAL">>)
    IN IF f[1] THEN Ok(f[2], Some("FullText"))
       ELSE IF s[1] THEN Ok(s[2], Some("Spatial"))
       ELSE Ok(i, None)

parse_alter_index_def_options(toks, i) ==
    LET comma == Call("consume_token", <<toks, i, ",">>)
        rp == IF comma[1] THEN comma ELSE Call("consume_token", <<toks, i, ")">>)
        eof == Call("consume_token", <<toks, i, EOF>>)
        semi == IF eof[1] THEN eof ELSE Call("consume_token", <<toks, i, ";">>)
        kw(k) == Call("parse_keyword", <<toks, i, k>>)
        some(r, variant) == IF r.st # "ok" THEN r ELSE Ok(r.i, Some(<<variant, r.v>>))
    IN IF rp[1]
       THEN LET b == put_back(toks, rp[2]) IN IF b.st # "ok" THEN b ELSE Ok(b.i, None)
       ELSE IF semi[1] THEN Ok(semi[2], None)
       ELSE IF kw("KEY_BLOCK_SIZE")[1]
       THEN some(Call("parse_expr", <<toks, kw("KEY_BLOCK_SIZE")[2]>>), "KeyBlockSize")
       ELSE IF kw("WITH")[1]
       THEN LET p == Call("expect_keyword", <<toks, kw("WITH")[2], "PARSER">>)
            IN IF p.st # "ok" THEN p ELSE some(Call("parse_identifier", <<toks, p.i>>), "WithParser")
       ELSE IF kw("USING")[1] THEN some(Call("parse_identifier", <<toks, kw("USING")[2]>>), "IndexType")
       ELSE IF kw("COMMENT")[1] THEN some(Call("parse_expr", <<toks, kw("COMMENT")[2]>>), "Comment")
       ELSE IF kw("REFERENCES")[1]
       THEN LET table == Call("parse_identifier", <<toks, kw("REFERENCES")[2]>>)
            IN IF table.st # "ok" THEN table
               ELSE LET column == Call("parse_parenthesized_column_list", <<toks, table.i, FALSE>>)
                    IN IF column.st # "ok" THEN column
                       ELSE Ok(column.i, Some(<<"References", table.v, column.v>>))
       ELSE expected(i, "alter table for index options ", peek_token(toks, i))

\* key_parts and index_option, the end of both kinds of index definition
parse_alter_index_def_tail(toks, i, name, index_name, index_type) ==
    LET key_parts == Call("parse_parenthesized_column_list", <<toks, i, FALSE>>)
    IN IF key_parts.st # "ok" THEN key_parts
       ELSE LET index_option == Call("parse_alter_index_def_options", <<toks, key_parts.i>>)
            IN IF index_option.st # "ok" THEN index_option
               ELSE Ok(index_option.i, <<"MysqlIndex", name, index_name, index_type,
                                         Some(key_parts.v), index_option.v>>)

parse_alter_index_def_primary(toks, i, drop) ==
    IF drop THEN Ok(i, <<"MysqlIndex", None, None, None, None, None>>)
    ELSE LET u == Call("parse_keyword", <<toks, i, "USING">>)
             index_type == IF u[1]
                           THEN LET id == Call("parse_identifier", <<toks, u[2]>>)
                                IN IF id.st # "ok" THEN id ELSE Ok(id.i, Some(id.v))
                           ELSE Ok(u[2], None)
         IN IF index_type.st # "ok" THEN index_type
            ELSE Call("parse_alter_index_def_tail", <<toks, index_type.i, None, None, index_type.v>>)

\* if !self.consume_token(&Token::LParen) { Some(parse_identifier()?) }
\* else { self.prev_token(); None }
parse_identifier_unless_lparen(toks, i) ==
    LET l == Call("consume_token", <<toks, i, "(">>)
    IN IF ~l[1]
       THEN LET id == Call("parse_identifier", <<toks, l[2]>>)
            IN IF id.st # "ok" THEN id ELSE Ok(id.i, Some(id.v))
       ELSE LET b == put_back(toks, l[2]) IN IF b.st # "ok" THEN b ELSE Ok(b.i, None)

parse_alter_index_def_normal(toks, i, unique, foreign, drop) ==
    LET name == IF foreign
                THEN LET k == Call("expect_keyword", <<toks, i, "KEY">>)
                     IN IF k.st # "ok" THEN k ELSE Ok(k.i, None)
                ELSE LET b == IF ~unique THEN put_back(toks, i) ELSE Ok(i, <<>>)
                     IN IF b.st # "ok" THEN b
                        ELSE LET id == Call("parse_identifier", <<toks, b.i>>)
                             IN IF id.st # "ok" THEN id ELSE Ok(id.i, Some(id.v))
    IN IF name.st # "ok" THEN name
       ELSE LET index_name == Call("parse_identifier_unless_lparen", <<toks, name.i>>)
            IN IF index_name.st # "ok" THEN index_name
               ELSE IF drop
               THEN Ok(index_name.i, <<"MysqlIndex", name.v, index_name.v, None, None, None>>)
               ELSE LET index_type == IF unique
                                      THEN Call("parse_identifier_unless_lparen", <<toks, index_name.i>>)
                                      ELSE Ok(index_name.i, None)
                    IN IF index_type.st # "ok" THEN index_type
                       ELSE Call("parse_alter_index_def_tail", <<toks, index_type.i, name.v,
                                                       index_name.v, index_type.v>>)

\* parse_alter_index_def (drop = FALSE) and parse_alter_drop_index (drop = TRUE),
\* which has no UNIQUE branch
parse_alter_index_def_for(toks, i, drop) ==
    LET kw(k) == Call("parse_keyword", <<toks, i, k>>)
        ik == IF kw("INDEX")[1] THEN kw("INDEX") ELSE kw("KEY")
        wrap(r, variant) == IF r.st # "ok" THEN r ELSE Ok(r.i, <<variant, r.v>>)
    IN IF ik[1] THEN wrap(Call("parse_alter_index_def_normal", <<toks, ik[2], FALSE, FALSE, drop>>), "Normal")
       ELSE IF kw("PRIMARY")[1]
       THEN LET k == Call("expect_keyword", <<toks, kw("PRIMARY")[2], "KEY">>)
            IN IF k.st # "ok" THEN k
               ELSE wrap(Call("parse_alter_index_def_primary", <<toks, k.i, drop>>), "PrimaryKey")
       ELSE IF ~drop /\ kw("UNIQUE")[1]
       THEN wrap(Call("parse_alter_index_def_normal", <<toks, kw("UNIQUE")[2], TRUE, FALSE, drop>>), "Unique")
       ELSE IF kw("FOREIGN")[1]
       THEN wrap(Call("parse_alter_index_def_normal", <<toks, kw("FOREIGN")[2], FALSE, TRUE, drop>>),
                 "ForeignKey")
       ELSE expected(i, "alter table index def ", peek_token(toks, i))

parse_alter_index_def(toks, i) == Call("parse_alter_index_def_for", <<toks, i, FALSE>>)

parse_alter_drop_index(toks, i) == Call("parse_alter_index_def_for", <<toks, i, TRUE>>)

\* constraint, storage type and index definition: an IndexInfo
parse_index_info(toks, i) ==
    LET constraint == Call("parse_alter_index_constraint", <<toks, i>>)
    IN IF constraint.st # "ok" THEN constraint
       ELSE LET index_type == Call("parse_alter_index_storge_type", <<toks, constraint.i>>)
                index_def == Call("parse_alter_index_def", <<toks, index_type.i>>)
            IN IF index_def.st # "ok" THEN index_def
               ELSE Ok(index_def.i, <<"IndexInfo", constraint.v, index_type.v, index_def.v>>)

parse_alter_add_index(toks, i) ==
    LET x == Call("parse_index_info", <<toks, i>>)
    IN IF x.st # "ok" THEN x ELSE Ok(x.i, <<"AddIndex", x.v>>)

parse_optional_table_constraint(toks, i) ==
    LET c == Call("parse_keyword", <<toks, i, "CONSTRAINT">>)
        name == IF c[1]
                THEN LET id == Call("parse_identifier", <<toks, c[2]>>)
                     IN IF id.st # "ok" THEN id ELSE Ok(id.i, Some(id.v))
                ELSE Ok(i, None)
    IN IF name.st # "ok" THEN name
       ELSE LET nt == next_token(toks, name.i)
                t == nt[1]
            IN IF IsWord(t) /\ t \in {"PRIMARY", "UNIQUE"}
               THEN LET k == IF t = "PRIMARY" THEN Call("expect_keyword", <<toks, nt[2], "KEY">>)
                             ELSE Ok(nt[2], <<>>)
                    IN IF k.st # "ok" THEN k
                       ELSE LET cols == Call("parse_parenthesized_column_list", <<toks, k.i, FALSE>>)
                            IN IF cols.st # "ok" THEN cols
                               ELSE Ok(cols.i, Some(<<"Unique", name.v, cols.v, t = "PRIMARY">>))
               ELSE IF IsWord(t) /\ t = "FOREIGN"
               THEN LET k == Call("expect_keyword", <<toks, nt[2], "KEY">>)
                    IN IF k.st # "ok" THEN k
                       ELSE LET cols == Call("parse_parenthesized_column_list", <<toks, k.i, FALSE>>)
                            IN IF cols.st # "ok" THEN cols
                               ELSE LET r == Call("expect_keyword", <<toks, cols.i, "REFERENCES">>)
                                    IN IF r.st # "ok" THEN r
                                       ELSE LET ft == Call("parse_object_name", <<toks, r.i>>)
                                            IN IF ft.st # "ok" THEN ft
                                               ELSE LET rc == Call("parse_parenthesized_column_list", <<
                                                                  toks, ft.i, FALSE>>)
                                                    IN IF rc.st # "ok" THEN rc
                                                       ELSE Ok(rc.i, Some(<<"ForeignKey", name.v,
                                                                   cols.v, ft.v, rc.v>>))
               ELSE IF IsWord(t) /\ t = "CHECK"
               THEN LET l == Call("expect_token", <<toks, nt[2], "(">>)
                    IN IF l.st # "ok" THEN l
                       ELSE LET e == Call("parse_expr", <<toks, l.i>>)
                            IN IF e.st # "ok" THEN e
                               ELSE LET r == Call("expect_token", <<toks, e.i, ")">>)
                                    IN IF r.st # "ok" THEN r
                                       ELSE Ok(r.i, Some(<<"Check", name.v, e.v>>))
               ELSE IF name.v # None
               THEN expected(nt[2], "PRIMARY, UNIQUE, FOREIGN, or CHECK", t)
               ELSE LET b == prev_token(toks, nt[2])
                    IN IF b = PanicIndex THEN Panic(nt[2], "prev_token") ELSE Ok(b, None)

parse_create_table_for_index(toks, i) ==
    LET k == Call("parse_one_of_keywords", <<toks, i, {"KEY", "INDEX", "PRIMARY", "UNIQUE", "FOREIGN",
                                             "FULLTEXT", "CONSTRAINT"}>>)
    IN IF k[1] # "None"
       THEN LET b == put_back(toks, k[2])
            IN IF b.st # "ok" THEN b
               ELSE LET x == Call("parse_index_info", <<toks, b.i>>)
                    IN IF x.st # "ok" THEN x ELSE Ok(x.i, Some(x.v))
       ELSE Ok(i, None)

\* an item parsed as the dialects other than MySql parse it, whatever the dialect
parse_columns_item_any_dialect(toks, i) ==
    LET x == Call("parse_optional_table_constraint", <<toks, i>>)
    IN IF x.st # "ok" THEN x
       ELSE IF x.v # None THEN Ok(x.i, <<"constraint", x.v[2]>>)
       ELSE IF IsWord(peek_token(toks, x.i))
       THEN LET c == Call("parse_column_def", <<toks, x.i>>)
            IN IF c.st # "ok" THEN c ELSE Ok(c.i, <<"column", c.v>>)
       ELSE expected(x.i, "column name or constraint definition", peek_token(toks, x.i))

\* one item of the column list: v = <<"index" | "column" | "constraint" | "none", item>>
parse_columns_item(toks, i) ==
    IF dialect_type = "MySql"
    THEN IF IsWord(peek_token(toks, i))
         THEN LET x == Call("parse_create_table_for_index", <<toks, i>>)
              IN IF x.st # "ok" THEN x
                 ELSE IF x.v # None THEN Ok(x.i, <<"index", x.v[2]>>)
                 ELSE LET c == Call("parse_column_def", <<toks, x.i>>)
                      IN IF c.st # "ok" THEN c ELSE Ok(c.i, <<"column", c.v>>)
         ELSE Ok(i, <<"none">>)
    ELSE LET x == Call("parse_optional_table_constraint", <<toks, i>>)
         IN IF x.st # "ok" THEN x
            ELSE IF x.v # None THEN Ok(x.i, <<"constraint", x.v[2]>>)
            ELSE IF IsWord(peek_token(toks, x.i))
            THEN LET c == Call("parse_column_def", <<toks, x.i>>)
                 IN IF c.st # "ok" THEN c ELSE Ok(c.i, <<"column", c.v>>)
            ELSE expected(x.i, "column name or constraint definition", peek_token(toks, x.i))

\* the loop of parse_columns; lists = <<columns, index, constraints>>
RECURSIVE parse_columns_loop(_, _, _, _)
parse_columns_loop(toks, i, lists, n) ==
    IF n > LoopBound(toks) THEN Diverge(i)
    ELSE LET it == Call("parse_columns_item", <<toks, i>>)
         IN IF it.st # "ok" THEN it
            ELSE LET new == CASE it.v[1] = "column" -> [lists EXCEPT ![1] = Append(@, it.v[2])]
                              [] it.v[1] = "index" -> [lists EXCEPT ![2] = Append(@, it.v[2])]
                              [] it.v[1] = "constraint" -> [lists EXCEPT ![3] = Append(@, it.v[2])]
                              [] OTHER -> lists
                     comma == Call("consume_token", <<toks, it.i, ",">>)
                     rp == Call("consume_token", <<toks, comma[2], ")">>)
                 IN IF rp[1] THEN Ok(rp[2], new)
                    ELSE IF ~comma[1]
                    THEN expected(rp[2], "',' or ')' after column definition",
                                  peek_token(toks, rp[2]))
                    ELSE Call("parse_columns_loop", <<toks, rp[2], new, n + 1>>)

parse_columns(toks, i) ==
    LET l == Call("consume_token", <<toks, i, "(">>)
        r == IF l[1] THEN Call("consume_token", <<toks, l[2], ")">>) ELSE <<FALSE, l[2]>>
    IN IF ~l[1] \/ r[1] THEN Ok(r[2], <<<<>>, <<>>, <<>>>>)
       ELSE Call("parse_columns_loop", <<toks, r[2], <<<<>>, <<>>, <<>>>>, 0>>)

parse_sql_option(toks, i) ==
    LET name == Call("parse_identifier", <<toks, i>>)
    IN IF name.st # "ok" THEN name
       ELSE LET e == Call("expect_token", <<toks, name.i, "=">>)
            IN IF e.st # "ok" THEN e
               ELSE LET v == Call("parse_value", <<toks, e.i>>)
                    IN IF v.st # "ok" THEN v ELSE Ok(v.i, <<"SqlOption", name.v, v.v>>)

parse_with_options(toks, i) ==
    LET w == Call("parse_keyword", <<toks, i, "WITH">>)
    IN IF ~w[1] THEN Ok(i, <<>>)
       ELSE LET l == Call("expect_token", <<toks, w[2], "(">>)
            IN IF l.st # "ok" THEN l
               ELSE LET o == Call("parse_comma_separated", <<"sql_option", toks, l.i>>)
                    IN IF o.st # "ok" THEN o
                       ELSE LET r == Call("expect_token", <<toks, o.i, ")">>)
                            IN IF r.st # "ok" THEN r ELSE Ok(r.i, o.v)

consume_table_option_token(toks, i) ==
    LET e == Call("consume_token", <<toks, i, "=">>)
    IN IF e[1] THEN Ok(e[2], <<>>) ELSE expected(i, "table option", peek_token(toks, i))

\* a.parse() of the AUTO_INCREMENT table option: Ok for an unsigned integer text
auto_increment_parse_ok(a) == a \in UIntNumbers

\* the option that is `key = expr`
parse_table_option_expr(toks, i, variant, name) ==
    LET c == Call("consume_table_option_token", <<toks, i>>)
    IN IF c.st # "ok" THEN c
       ELSE LET e == Call("parse_expr", <<toks, c.i>>)
            IN IF e.st # "ok" THEN e
               ELSE Ok(e.i, <<"TableOptionDef", name, <<variant, e.v>> >>)

parse_table_option_def(toks, i) ==
    LET kw(k) == Call("parse_keyword", <<toks, i, k>>)
    IN IF kw("COMMENT")[1] THEN Call("parse_table_option_expr", <<toks, kw("COMMENT")[2], "Comment", None>>)
       ELSE IF kw("COLLATE")[1]
       THEN Call("parse_table_option_expr", <<toks, kw("COLLATE")[2], "Collate", None>>)
       ELSE IF kw("DEFAULT")[1]
       THEN LET b == prev_token(toks, kw("DEFAULT")[2])
                name == IF b = PanicIndex THEN Panic(i, "prev_token")
                        ELSE Call("parse_identifier", <<toks, b>>)
            IN IF name.st # "ok" THEN name
               ELSE LET cs == Call("parse_keyword", <<toks, name.i, "CHARSET">>)
                    IN IF cs[1] THEN Call("parse_table_option_expr", <<toks, cs[2], "Charset", Some(name.v)>>)
                       ELSE expected(name.i, "talbe option for default charset",
                                     peek_token(toks, name.i))
       ELSE IF kw("AUTO_INCREMENT")[1]
       THEN LET c == Call("consume_table_option_token", <<toks, kw("AUTO_INCREMENT")[2]>>)
            IN IF c.st # "ok" THEN c
               ELSE LET nt == next_token(toks, c.i)
                    IN IF nt[1] \in Numbers
                       THEN IF auto_increment_parse_ok(nt[1])
                            THEN Ok(nt[2], <<"TableOptionDef", None, <<"Auto_Increment", nt[1]>> >>)
                            ELSE Panic(nt[2], "unwrap on an Err value")
                       ELSE expected(nt[2], "table option for auto_increment",
                                     peek_token(toks, nt[2]))
       ELSE IF kw("ENGINE")[1] THEN Call("parse_table_option_expr", <<toks, kw("ENGINE")[2], "Engine", None>>)
       ELSE expected(i, "table option", peek_token(toks, i))

\* the loop of parse_table_options
RECURSIVE parse_table_options_loop(_, _, _, _)
parse_table_options_loop(toks, i, table_options, n) ==
    IF n > LoopBound(toks) THEN Diverge(i)
    ELSE LET e == Call("consume_token", <<toks, i, EOF>>)
             s == IF e[1] THEN e ELSE Call("consume_token", <<toks, i, ";">>)
         IN IF s[1] THEN Ok(s[2], table_options)
            ELSE LET o == Call("parse_table_option_def", <<toks, i>>)
                 IN IF o.st # "ok" THEN o
                    ELSE Call("parse_table_options_loop", <<toks, o.i, Append(table_options, o.v), n + 1>>)

parse_table_options(toks, i) == Call("parse_table_options_loop", <<toks, i, <<>>, 0>>)

parse_create_table(toks, i) ==
    LET ine == Call("parse_keywords", <<toks, i, <<"IF", "NOT", "EXISTS">>>>)
        table_name == Call("parse_object_name", <<toks, ine[2]>>)
    IN IF table_name.st # "ok" THEN table_name
       ELSE LET cols == Call("parse_columns", <<toks, table_name.i>>)
            IN IF cols.st # "ok" THEN cols
               ELSE LET wr == Call("parse_keywords", <<toks, cols.i, <<"WITHOUT", "ROWID">>>>)
                        wo == Call("parse_with_options", <<toks, wr[2]>>)
                    IN IF wo.st # "ok" THEN wo
                       ELSE LET topt == Call("parse_table_options", <<toks, wo.i>>)
                            IN IF topt.st # "ok" THEN topt
                               ELSE LET as == Call("parse_keyword", <<toks, topt.i, "AS">>)
                                        query == IF as[1]
                                                 THEN LET q == Call("parse_query", <<toks, as[2]>>)
                                                      IN IF q.st # "ok" THEN q
                                                         ELSE Ok(q.i, Some(q.v))
                                                 ELSE Ok(topt.i, None)
                                    IN IF query.st # "ok" THEN query
                                       ELSE Ok(query.i,
                                               <<"CreateTable", table_name.v, cols.v[1], cols.v[2],
                                                 cols.v[3], wo.v, topt.v, ine[1], query.v, wr[1]>>)

parse_create_schema(toks, i) ==
    LET n == Call("parse_object_name", <<toks, i>>)
    IN IF n.st # "ok" THEN n ELSE Ok(n.i, <<"CreateSchema", n.v>>)

\* CREATE [UNIQUE] INDEX, [MATERIALIZED] VIEW, EXTERNAL and VIRTUAL are outside the model
parse_create(toks, i) ==
    LET kw(k) == Call("parse_keyword", <<toks, i, k>>)
    IN IF kw("TABLE")[1] THEN Call("parse_create_table", <<toks, kw("TABLE")[2]>>)
       ELSE IF kw("INDEX")[1] \/ Call("parse_keywords", <<toks, i, <<"UNIQUE", "INDEX">>>>)[1]
       THEN Unmodelled(i, "parse_create_index")
       ELSE IF kw("MATERIALIZED")[1] \/ kw("VIEW")[1] THEN Unmodelled(i, "parse_create_view")
       ELSE IF kw("EXTERNAL")[1] THEN Unmodelled(i, "parse_create_external_table")
       ELSE IF kw("VIRTUAL")[1] THEN Unmodelled(i, "parse_create_virtual_table")
       ELSE IF kw("SCHEMA")[1] THEN Call("parse_create_schema", <<toks, kw("SCHEMA")[2]>>)
       ELSE IF kw("DATABASE")[1] THEN Call("parse_create_schema", <<toks, kw("DATABASE")[2]>>)
       ELSE expected(i, "an object type after CREATE", peek_token(toks, i))

parse_drop(toks, i) ==
    LET kw(k) == Call("parse_keyword", <<toks, i, k>>)
        object_type ==
          IF kw("TABLE")[1] THEN Ok(kw("TABLE")[2], "Table")
          ELSE IF kw("VIEW")[1] THEN Ok(kw("VIEW")[2], "View")
          ELSE IF kw("INDEX")[1] THEN Ok(kw("INDEX")[2], "Index")
          ELSE IF kw("SCHEMA")[1] THEN Ok(kw("SCHEMA")[2], "Schema")
          ELSE IF kw("DATABASE")[1] THEN Ok(kw("DATABASE")[2], "Schema")
          ELSE expected(i, "TABLE, VIEW, INDEX or SCHEMA after DROP", peek_token(toks, i))
    IN IF object_type.st # "ok" THEN object_type
       ELSE LET ie == Call("parse_keywords", <<toks, object_type.i, <<"IF", "EXISTS">>>>)
                names == Call("parse_comma_separated", <<"object_name", toks, ie[2]>>)
            IN IF names.st # "ok" THEN names
               ELSE LET on == IF object_type.v = "Index" THEN Call("parse_keyword", <<toks, names.i, "ON">>)
                              ELSE <<FALSE, names.i>>
                        on_info == IF on[1] THEN Call("parse_object_name", <<toks, on[2]>>)
                                   ELSE Ok(names.i, <<>>)
                    IN IF on_info.st # "ok" THEN on_info
                       ELSE LET cascade == Call("parse_keyword", <<toks, on_info.i, "CASCADE">>)
                                restrict == Call("parse_keyword", <<toks, cascade[2], "RESTRICT">>)
                            IN IF cascade[1] /\ restrict[1]
                               THEN parser_err(restrict[2],
                                               "Cannot specify both CASCADE and RESTRICT in DROP")
                               ELSE Ok(restrict[2], <<"Drop", object_type.v, ie[1], names.v,
                                                      on_info.v, cascade[1]>>)

-----------------------------------------------------------------------------
(* ALTER TABLE                                                             *)

\* the operation after ADD or MODIFY
parse_alter_add(toks, i) ==
    LET c == IF dialect_type = "MySql" THEN Ok(i, None)
             ELSE Call("parse_optional_table_constraint", <<toks, i>>)
    IN IF c.st # "ok" THEN c
       ELSE IF c.v # None THEN Ok(c.i, <<"AddConstraint", c.v[2]>>)
       ELSE LET col == Call("parse_keyword", <<toks, c.i, "COLUMN">>)
            IN IF ~col[1] THEN Call("parse_alter_add_index", <<toks, col[2]>>)
               ELSE LET d == Call("parse_column_def", <<toks, col[2]>>)
                    IN IF d.st # "ok" THEN d ELSE Ok(d.i, <<"AddColumn", d.v>>)

\* one AlterTableOperation of the loop of parse_alter
parse_alter_operation(toks, i) ==
    LET kw(k) == Call("parse_keyword", <<toks, i, k>>)
    IN IF kw("ADD")[1] THEN Call("parse_alter_add", <<toks, kw("ADD")[2]>>)
       ELSE IF kw("MODIFY")[1] THEN Call("parse_alter_add", <<toks, kw("MODIFY")[2]>>)
       ELSE IF kw("CHANGE")[1]
       THEN LET c == Call("parse_keyword", <<toks, kw("CHANGE")[2], "COLUMN">>)
                old == Call("parse_identifier", <<toks, c[2]>>)
            IN IF old.st # "ok" THEN old
               ELSE LET d == Call("parse_column_def", <<toks, old.i>>)
                    IN IF d.st # "ok" THEN d ELSE Ok(d.i, <<"ChangeColumn", old.v, d.v>>)
       ELSE IF kw("RENAME")[1]
       THEN LET to == Call("parse_keyword", <<toks, kw("RENAME")[2], "TO">>)
            IN IF to[1]
               THEN LET t == Call("parse_identifier", <<toks, to[2]>>)
                    IN IF t.st # "ok" THEN t ELSE Ok(t.i, <<"RenameTable", t.v>>)
               ELSE LET c == Call("parse_keyword", <<toks, to[2], "COLUMN">>)
                        old == Call("parse_identifier", <<toks, c[2]>>)
                    IN IF old.st # "ok" THEN old
                       ELSE LET t2 == Call("expect_keyword", <<toks, old.i, "TO">>)
                            IN IF t2.st # "ok" THEN t2
                               ELSE LET new == Call("parse_identifier", <<toks, t2.i>>)
                                    IN IF new.st # "ok" THEN new
                                       ELSE Ok(new.i, <<"RenameColumn", old.v, new.v>>)
       ELSE IF kw("DROP")[1]
       THEN LET c == Call("parse_keyword", <<toks, kw("DROP")[2], "COLUMN">>)
            IN IF ~c[1]
               THEN LET x == Call("parse_alter_drop_index", <<toks, c[2]>>)
                    IN IF x.st # "ok" THEN x ELSE Ok(x.i, <<"DropIndex", x.v>>)
               ELSE LET ie == Call("parse_keywords", <<toks, c[2], <<"IF", "EXISTS">>>>)
                        name == Call("parse_identifier", <<toks, ie[2]>>)
                    IN IF name.st # "ok" THEN name
                       ELSE LET cascade == Call("parse_keyword", <<toks, name.i, "CASCADE">>)
                            IN Ok(cascade[2], <<"DropColumn", name.v, ie[1], cascade[1]>>)
       ELSE expected(i, "ADD, RENAME, or DROP after ALTER TABLE", peek_token(toks, i))

\* the loop of parse_alter
RECURSIVE parse_alter_loop(_, _, _, _)
parse_alter_loop(toks, i, tmp, n) ==
    IF n > LoopBound(toks) THEN Diverge(i)
    ELSE LET e == Call("consume_token", <<toks, i, EOF>>)
             s == IF e[1] THEN e ELSE Call("consume_token", <<toks, i, ";">>)
         IN IF s[1] THEN Ok(s[2], tmp)
            ELSE LET c == Call("consume_token", <<toks, i, ",">>)
                     op == Call("parse_alter_operation", <<toks, c[2]>>)
                 IN IF op.st # "ok" THEN op
                    ELSE Call("parse_alter_loop", <<toks, op.i, Append(tmp, op.v), n + 1>>)

parse_alter(toks, i) ==
    LET t == Call("expect_keyword", <<toks, i, "TABLE">>)
    IN IF t.st # "ok" THEN t
       ELSE LET only == Call("parse_keyword", <<toks, t.i, "ONLY">>)
                table_name == Call("parse_object_name", <<toks, only[2]>>)
            IN IF table_name.st # "ok" THEN table_name
               ELSE LET ops == Call("parse_alter_loop", <<toks, table_name.i, <<>>, 0>>)
                    IN IF ops.st # "ok" THEN ops
                       ELSE Ok(ops.i, <<"AlterTable", table_name.v, ops.v>>)

-----------------------------------------------------------------------------
(* CALL, COPY, INSERT, UPDATE                                              *)

\* the loop of parse_call_parameter
RECURSIVE parse_call_parameter_loop(_, _, _, _, _)
parse_call_parameter_loop(toks, i, ident_list, r_paren, n) ==
    IF n > LoopBound(toks) THEN Diverge(i)
    ELSE LET rp == Call("consume_token", <<toks, i, ")">>)
             e == Call("consume_token", <<toks, i, EOF>>)
         IN IF rp[1] THEN Call("parse_call_parameter_loop", <<toks, rp[2], ident_list, TRUE, n + 1>>)
            ELSE IF r_paren /\ e[1] THEN Ok(e[2], ident_list)
            ELSE IF r_paren THEN expected(i, "Call Wrong syntax", peek_token(toks, i))
            ELSE LET l == Call("parse_comma_separated", <<"expr", toks, i>>)
                 IN IF l.st # "ok" THEN l
                    ELSE Call("parse_call_parameter_loop", <<toks, l.i, l.v, r_paren, n + 1>>)

parse_call_parameter(toks, i) ==
    LET l == Call("consume_token", <<toks, i, "(">>)
    IN IF l[1] THEN Call("parse_call_parameter_loop", <<toks, l[2], <<>>, FALSE, 0>>)
       ELSE expected(i, "Call Wrong syntax", peek_token(toks, i))

parse_call(toks, i) ==
    LET fun_name == Call("parse_identifier", <<toks, i>>)
    IN IF fun_name.st # "ok" THEN fun_name
       ELSE LET e == Call("consume_token", <<toks, fun_name.i, EOF>>)
            IN IF e[1] THEN Ok(e[2], <<"Call", fun_name.v, None>>)
               ELSE LET p == Call("parse_call_parameter", <<toks, fun_name.i>>)
                    IN IF p.st # "ok" THEN p ELSE Ok(p.i, <<"Call", fun_name.v, Some(p.v)>>)

\* the loop of parse_tab_value; content is the sequence of tokens pushed to it
RECURSIVE parse_tab_value_loop(_, _, _, _, _)
parse_tab_value_loop(toks, i, values, content, n) ==
    IF n > LoopBound(toks) THEN Diverge(i)
    ELSE LET nt == next_token_no_skip(toks, i)
             t == nt[1]
         IN IF t = NoToken THEN Ok(nt[2], values)
            ELSE IF t \in {"TAB", "NL"}
            THEN Call("parse_tab_value_loop", <<toks, nt[2], Append(values, Some(content)), <<>>, n + 1>>)
            ELSE IF t = "\\"
            THEN LET p == Call("consume_token", <<toks, nt[2], ".">>)
                     w == next_token(toks, nt[2])
                 IN IF p[1] THEN Ok(p[2], values)
                    ELSE Call("parse_tab_value_loop", <<toks, w[2],
                             IF w[1] = "N" THEN Append(values, None) ELSE values,
                             content, n + 1>>)
            ELSE Call("parse_tab_value_loop", <<toks, nt[2], values, Append(content, t), n + 1>>)

parse_tab_value(toks, i) == Call("parse_tab_value_loop", <<toks, i, <<>>, <<>>, 0>>)

RECURSIVE expect_keywords(_, _, _)
expect_keywords(toks, i, kws) ==
    IF kws = <<>> THEN Ok(i, <<>>)
    ELSE LET a == Call("expect_keyword", <<toks, i, Head(kws)>>)
         IN IF a.st # "ok" THEN a ELSE Call("expect_keywords", <<toks, a.i, Tail(kws)>>)

parse_copy(toks, i) ==
    LET table_name == Call("parse_object_name", <<toks, i>>)
    IN IF table_name.st # "ok" THEN table_name
       ELSE LET columns == Call("parse_parenthesized_column_list", <<toks, table_name.i, TRUE>>)
            IN IF columns.st # "ok" THEN columns
               ELSE LET fs == Call("expect_keywords", <<toks, columns.i, <<"FROM", "STDIN">>>>)
                    IN IF fs.st # "ok" THEN fs
                       ELSE LET sc == Call("expect_token", <<toks, fs.i, ";">>)
                            IN IF sc.st # "ok" THEN sc
                               ELSE LET values == Call("parse_tab_value", <<toks, sc.i>>)
                                    IN IF values.st # "ok" THEN values
                                       ELSE Ok(values.i, <<"Copy", table_name.v, columns.v,
                                                           values.v>>)

parse_assignment(toks, i) ==
    LET id == Call("parse_identifier", <<toks, i>>)
    IN IF id.st # "ok" THEN id
       ELSE LET e == Call("expect_token", <<toks, id.i, "=">>)
            IN IF e.st # "ok" THEN e
               ELSE LET value == Call("parse_expr", <<toks, e.i>>)
                    IN IF value.st # "ok" THEN value
                       ELSE Ok(value.i, <<"Assignment", id.v, value.v>>)

\* ON alone taken for the whole of ON DUPLICATE KEY UPDATE
parse_on_duplicate_key_update_on_only(toks, i) ==
    LET on == Call("parse_keyword", <<toks, i, "ON">>)
    IN IF on[1] THEN Ok(on[2], TRUE) ELSE Ok(i, FALSE)

parse_on_duplicate_key_update(toks, i) ==
    LET on == Call("parse_keyword", <<toks, i, "ON">>)
        d == Call("parse_keyword", <<toks, on[2], "DUPLICATE">>)
        k == Call("parse_keyword", <<toks, d[2], "KEY">>)
        u == Call("parse_keyword", <<toks, k[2], "UPDATE">>)
    IN IF ~on[1] THEN Ok(i, FALSE)
       ELSE IF ~d[1] THEN expected(on[2], "on duplicate key update error", peek_token(toks, on[2]))
       ELSE IF ~k[1] THEN expected(d[2], "on duplicate key update error", peek_token(toks, d[2]))
       ELSE IF ~u[1] THEN expected(k[2], "on duplicate key update error", peek_token(toks, k[2]))
       ELSE Ok(u[2], TRUE)

\* parse_insert that builds Statement::Replace behind the keyword REPLACE
parse_insert_by_keyword(toks, i) ==
    LET p == Call("parse_one_of_keywords", <<toks, i, {"LOW_PRIORITY", "HIGH_PRIORITY", "DELAYED"}>>)
        priority == IF p[1] = "None" THEN None ELSE Some(p[1])
        ignore == Call("parse_keyword", <<toks, p[2], "IGNORE">>)
        into == Call("parse_keyword", <<toks, ignore[2], "INTO">>)
        table_name == Call("parse_object_name", <<toks, into[2]>>)
    IN IF table_name.st # "ok" THEN table_name
       ELSE LET columns == Call("parse_parenthesized_column_list", <<toks, table_name.i, TRUE>>)
            IN IF columns.st # "ok" THEN columns
               ELSE LET source == Call("parse_query", <<toks, columns.i>>)
                    IN IF source.st # "ok" THEN source
                       ELSE LET od == Call("parse_on_duplicate_key_update", <<toks, source.i>>)
                                update == IF od.st # "ok" THEN od
                                          ELSE IF od.v
                                          THEN LET a == Call("parse_comma_separated", <<"assignment", toks, od.i>>)
                                               IN IF a.st # "ok" THEN a ELSE Ok(a.i, Some(a.v))
                                          ELSE Ok(od.i, None)
                            IN IF update.st # "ok" THEN update
                               ELSE Ok(update.i, <<IF i >= 1 /\ toks[i] = "REPLACE" THEN "Replace" ELSE "Insert", priority, ignore[1], table_name.v,
                                                   columns.v, source.v, update.v>>)

parse_insert(toks, i) ==
    LET p == Call("parse_one_of_keywords", <<toks, i, {"LOW_PRIORITY", "HIGH_PRIORITY", "DELAYED"}>>)
        priority == IF p[1] = "None" THEN None ELSE Some(p[1])
        ignore == Call("parse_keyword", <<toks, p[2], "IGNORE">>)
        into == Call("parse_keyword", <<toks, ignore[2], "INTO">>)
        table_name == Call("parse_object_name", <<toks, into[2]>>)
    IN IF table_name.st # "ok" THEN table_name
       ELSE LET columns == Call("parse_parenthesized_column_list", <<toks, table_name.i, TRUE>>)
            IN IF columns.st # "ok" THEN columns
               ELSE LET source == Call("parse_query", <<toks, columns.i>>)
                    IN IF source.st # "ok" THEN source
                       ELSE LET od == Call("parse_on_duplicate_key_update", <<toks, source.i>>)
                                update == IF od.st # "ok" THEN od
                                          ELSE IF od.v
                                          THEN LET a == Call("parse_comma_separated", <<"assignment", toks, od.i>>)
                                               IN IF a.st # "ok" THEN a ELSE Ok(a.i, Some(a.v))
                                          ELSE Ok(od.i, None)
                            IN IF update.st # "ok" THEN update
                               ELSE Ok(update.i, <<"Insert", priority, ignore[1], table_name.v,
                                                   columns.v, source.v, update.v>>)

parse_update(toks, i) ==
    LET table_name == Call("parse_object_name", <<toks, i>>)
    IN IF table_name.st # "ok" THEN table_name
       ELSE LET s == Call("expect_keyword", <<toks, table_name.i, "SET">>)
            IN IF s.st # "ok" THEN s
               ELSE LET assignments == Call("parse_comma_separated", <<"assignment", toks, s.i>>)
                    IN IF assignments.st # "ok" THEN assignments
                       ELSE LET w == Call("parse_keyword", <<toks, assignments.i, "WHERE">>)
                                selection == IF w[1]
                                             THEN LET e == Call("parse_expr", <<toks, w[2]>>)
                                                  IN IF e.st # "ok" THEN e ELSE Ok(e.i, Some(e.v))
                                             ELSE Ok(assignments.i, None)
                            IN IF selection.st # "ok" THEN selection
                               ELSE LET lk == Call("parse_keyword", <<toks, selection.i, "LIMIT">>)
                                        lim == IF lk[1] THEN Call("parse_mysql_limit", <<toks, lk[2]>>)
                                               ELSE Ok(selection.i, <<None, None>>)
                                    IN IF lim.st # "ok" THEN lim
                                       ELSE Ok(lim.i, <<"Update", table_name.v, assignments.v,
                                                        selection.v, lim.v[1]>>)

-----------------------------------------------------------------------------
(* parse_statement and parse_sql                                           *)

\* Statement::Query(parse_query()) after the first token was put back
parse_query_statement(toks, i) ==
    LET b == prev_token(toks, i)
    IN IF b = PanicIndex THEN Panic(i, "prev_token")
       ELSE LET q == Call("parse_query", <<toks, b>>)
            IN IF q.st # "ok" THEN q ELSE Ok(q.i, <<"Query", q.v>>)

parse_show_statement_filter(toks, i) ==
    LET l == Call("parse_keyword", <<toks, i, "LIKE">>)
        w == Call("parse_keyword", <<toks, i, "WHERE">>)
    IN IF l[1]
       THEN LET str == Call("parse_literal_string", <<toks, l[2]>>)
            IN IF str.st # "ok" THEN str ELSE Ok(str.i, Some(<<"Like", str.v>>))
       ELSE IF w[1]
       THEN LET e == Call("parse_expr", <<toks, w[2]>>)
            IN IF e.st # "ok" THEN e ELSE Ok(e.i, Some(<<"Where", e.v>>))
       ELSE Ok(i, None)

parse_show_columns(toks, i) ==
    LET extended == Call("parse_keyword", <<toks, i, "EXTENDED">>)
        full == Call("parse_keyword", <<toks, extended[2], "FULL">>)
        c == Call("expect_one_of_keywords", <<toks, full[2], {"COLUMNS", "FIELDS"}>>)
    IN IF c.st # "ok" THEN c
       ELSE LET f == Call("expect_one_of_keywords", <<toks, c.i, {"FROM", "IN"}>>)
            IN IF f.st # "ok" THEN f
               ELSE LET table_name == Call("parse_object_name", <<toks, f.i>>)
                    IN IF table_name.st # "ok" THEN table_name
                       ELSE LET filter == Call("parse_show_statement_filter", <<toks, table_name.i>>)
                            IN IF filter.st # "ok" THEN filter
                               ELSE Ok(filter.i, <<"ShowColumns", extended[1], full[1],
                                                   table_name.v, filter.v>>)

parse_show(toks, i) ==
    LET k == Call("parse_one_of_keywords", <<toks, i, {"EXTENDED", "FULL", "COLUMNS", "FIELDS"}>>)
        c == Call("parse_keyword", <<toks, i, "CREATE">>)
    IN IF k[1] # "None"
       THEN LET b == prev_token(toks, k[2])
            IN IF b = PanicIndex THEN Panic(k[2], "prev_token") ELSE Call("parse_show_columns", <<toks, b>>)
       ELSE IF c[1]
       THEN LET t == Call("parse_keyword", <<toks, c[2], "TABLE">>)
            IN IF t[1]
               THEN LET table_name == Call("parse_object_name", <<toks, t[2]>>)
                    IN IF table_name.st # "ok" THEN table_name
                       ELSE Ok(table_name.i, <<"ShowCreate", table_name.v>>)
               ELSE LET b == prev_token(toks, c[2])
                    IN IF b = PanicIndex THEN Panic(c[2], "prev_token")
                       ELSE expected(b, "equals sign or TO", peek_token(toks, b))
       ELSE LET global == Call("parse_keyword", <<toks, i, "GLOBAL">>)
                variable == Call("parse_identifier", <<toks, global[2]>>)
            IN IF variable.st # "ok" THEN variable
               ELSE LET w == Call("parse_keyword", <<toks, variable.i, "WHERE">>)
                        selection == IF w[1] THEN Call("parse_expr", <<toks, w[2]>>) ELSE Ok(variable.i, None)
                    IN IF selection.st # "ok" THEN selection
                       ELSE Ok(selection.i, <<"ShowVariable", variable.v, global[1],
                                               IF w[1] THEN Some(selection.v) ELSE None>>)

\* EXPLAIN, RELOAD and LOCK are outside the model
parse_statement(toks, i) ==
    LET nt == next_token(toks, i)
        w == nt[1]
        j == nt[2]
    IN IF IsWord(w)
       THEN CASE w \in {"SELECT", "WITH", "VALUES"} -> Call("parse_query_statement", <<toks, j>>)
              [] w = "CALL" -> Call("parse_call", <<toks, j>>)
              [] w = "CREATE" -> Call("parse_create", <<toks, j>>)
              [] w = "DROP" -> Call("parse_drop", <<toks, j>>)
              [] w = "DELETE" -> Call("parse_delete", <<toks, j>>)
              [] w \in {"INSERT", "REPLACE"} -> Call("parse_insert", <<toks, j>>)
              [] w = "UPDATE" -> Call("parse_update", <<toks, j>>)
              [] w = "ALTER" -> Call("parse_alter", <<toks, j>>)
              [] w = "COPY" -> Call("parse_copy", <<toks, j>>)
              [] w = "SET" -> Call("parse_set", <<toks, j>>)
              [] w = "START" -> Call("parse_start_transaction", <<toks, j>>)
              [] w = "BEGIN" -> Call("parse_begin", <<toks, j>>)
              [] w = "COMMIT" -> Call("parse_commit", <<toks, j>>)
              [] w = "ROLLBACK" -> Call("parse_rollback", <<toks, j>>)
              [] w = "ASSERT" -> Call("parse_assert", <<toks, j>>)
              [] w = "UNLOCK" -> Call("parse_unlock", <<toks, j>>)
              [] w = "USE" -> Call("parse_use", <<toks, j>>)
              [] w = "DESC" -> Call("parse_desc", <<toks, j>>)
              [] w = "SHOW" -> Call("parse_show", <<toks, j>>)
              [] w \in {"EXPLAIN", "RELOAD", "LOCK"} -> Unmodelled(j, w)
              [] OTHER -> expected(j, "an SQL statement", w)
       ELSE IF w = "(" THEN Call("parse_query_statement", <<toks, j>>)
       ELSE expected(j, "an SQL statement", w)

(* The parsing functions that are called through a dispatcher: the        *)
(* element parsers handed to parse_comma_separated, parse_expr and         *)
(* parse_statement                                                         *)

parse_item(kind, toks, i) ==
    CASE kind = "expr" -> Call("parse_subexpr", <<toks, i, 0>>)
      [] kind = "identifier" -> Call("parse_identifier", <<toks, i>>)
      [] kind = "object_name" -> Call("parse_object_name", <<toks, i>>)
      [] kind = "values_row" -> Call("parse_values_row", <<toks, i>>)
      [] kind = "cte" -> Call("parse_cte", <<toks, i>>)
      [] kind = "order_by_expr" -> Call("parse_order_by_expr", <<toks, i>>)
      [] kind = "select_item" -> Call("parse_select_item", <<toks, i>>)
      [] kind = "table_and_joins" -> Call("parse_table_and_joins", <<toks, i>>)
      [] kind = "sql_option" -> Call("parse_sql_option", <<toks, i>>)
      [] kind = "assignment" -> Call("parse_assignment", <<toks, i>>)
      [] kind = "statement" -> Call("parse_statement", <<toks, i>>)

\* while parser.consume_token(&Token::SemiColon) { .. }: <<consumed any, new index>>
RECURSIVE skip_delimiters(_, _, _)
skip_delimiters(toks, i, any) ==
    LET c == Call("consume_token", <<toks, i, ";">>)
    IN IF c[1] THEN Call("skip_delimiters", <<toks, c[2], TRUE>>) ELSE <<any, i>>

\* the loop iteration without the expecting_statement_delimiter test: C4
\* does not hold of it
parse_sql_iteration_no_delimiter(toks, i, expecting) ==
    LET d == Call("skip_delimiters", <<toks, i, FALSE>>)
        j == d[2]
    IN IF peek_token(toks, j) = EOF
       THEN [st |-> "break", i |-> j, v |-> <<>>, at |-> j, expecting |-> FALSE]
       ELSE LET r == Call("parse_item", <<"statement", toks, j>>)
            IN [st |-> r.st, i |-> r.i, v |-> r.v, at |-> j, expecting |-> r.st = "ok"]

\* one iteration of the loop of parse_sql, from the cursor i:
\*   "break"      the loop ends, parse_sql returns Ok(stmts)
\*   "delimiter"  Expected end of statement
\*   otherwise the outcome st of parse_statement, with its value v
\* at is the cursor after the run of `;`, expecting the flag after the iteration
parse_sql_iteration(toks, i, expecting) ==
    LET d == Call("skip_delimiters", <<toks, i, FALSE>>)
        expecting1 == IF d[1] THEN FALSE ELSE expecting
        j == d[2]
    IN IF peek_token(toks, j) = EOF
       THEN [st |-> "break", i |-> j, v |-> <<>>, at |-> j, expecting |-> expecting1]
       ELSE IF expecting1
       THEN [st |-> "delimiter", i |-> j, at |-> j, expecting |-> expecting1,
             v |-> expected(j, "end of statement", peek_token(toks, j)).v]
       ELSE LET r == Call("parse_item", <<"statement", toks, j>>)
            IN [st |-> r.st, i |-> r.i, v |-> r.v, at |-> j, expecting |-> r.st = "ok"]

\* Ok(stmts) after the loop
return_ok(stmts0) == <<"Ok", stmts0>>

\* an error that carries the statements parsed so far: C5 does not hold of it
return_err_with_stmts(e, stmts0) == <<"Err", e, stmts0>>

\* the ? on parse_statement and the return of parser.expected(..): the error
\* alone leaves parse_sql, the local stmts is dropped
return_err(e, stmts0) == <<"Err", e>>

\* parse_sql on the tokens of the text: <<"Ok", stmts>>, <<"Err", e>>, or the abort
RECURSIVE parse_sql_loop(_, _, _, _)
parse_sql_loop(toks, i, stmts0, expecting) ==
    LET it == Call("parse_sql_iteration", <<toks, i, expecting>>)
    IN CASE it.st = "break" -> return_ok(stmts0)
         [] it.st = "ok" -> Call("parse_sql_loop", <<toks, it.i, Append(stmts0, it.v), TRUE>>)
         [] it.st \in {"delimiter", "err"} -> return_err(it.v, stmts0)
         [] OTHER -> <<it.st, it.v>>

parse_sql(toks) == Call("parse_sql_loop", <<toks, 0, <<>>, FALSE>>)


Call(f, a) ==
    CASE f = "parse_keyword" -> parse_keyword(a[1], a[2], a[3])
      [] f = "parse_keywords_from" -> parse_keywords_from(a[1], a[2], a[3], a[4])
      [] f = "parse_keywords" -> parse_keywords(a[1], a[2], a[3])
      [] f = "parse_one_of_keywords" -> parse_one_of_keywords(a[1], a[2], a[3])
      [] f = "expect_keyword" -> expect_keyword(a[1], a[2], a[3])
      [] f = "consume_token" -> consume_token(a[1], a[2], a[3])
      [] f = "expect_token" -> expect_token(a[1], a[2], a[3])
      [] f = "parse_identifier" -> parse_identifier(a[1], a[2])
      [] f = "parse_object_name_loop" -> parse_object_name_loop(a[1], a[2], a[3])
      [] f = "parse_object_name" -> parse_object_name(a[1], a[2])
      [] f = "parse_literal_uint" -> parse_literal_uint(a[1], a[2])
      [] f = "parse_literal_string" -> parse_literal_string(a[1], a[2])
      [] f = "parse_value" -> parse_value(a[1], a[2])
      [] f = "parse_number_value" -> parse_number_value(a[1], a[2])
      [] f = "parse_optional_precision" -> parse_optional_precision(a[1], a[2])
      [] f = "parse_data_type" -> parse_data_type(a[1], a[2])
      [] f = "parse_comma_separated_loop" -> parse_comma_separated_loop(a[1], a[2], a[3], a[4], a[5])
      [] f = "parse_comma_separated" -> parse_comma_separated(a[1], a[2], a[3])
      [] f = "parse_all_or_distinct" -> parse_all_or_distinct(a[1], a[2])
      [] f = "get_next_precedence" -> get_next_precedence(a[1], a[2])
      [] f = "parse_expr" -> parse_expr(a[1], a[2])
      [] f = "parse_subexpr_loop" -> parse_subexpr_loop(a[1], a[2], a[3], a[4], a[5])
      [] f = "parse_subexpr" -> parse_subexpr(a[1], a[2], a[3])
      [] f = "parse_pg_cast" -> parse_pg_cast(a[1], a[2], a[3])
      [] f = "parse_between" -> parse_between(a[1], a[2], a[3], a[4])
      [] f = "parse_in" -> parse_in(a[1], a[2], a[3], a[4])
      [] f = "parse_infix" -> parse_infix(a[1], a[2], a[3], a[4])
      [] f = "id_parts_loop" -> id_parts_loop(a[1], a[2], a[3])
      [] f = "parse_typed_string" -> parse_typed_string(a[1], a[2])
      [] f = "parse_prefix_match" -> parse_prefix_match(a[1], a[2])
      [] f = "parse_prefix" -> parse_prefix(a[1], a[2])
      [] f = "parse_optional_args" -> parse_optional_args(a[1], a[2])
      [] f = "parse_function" -> parse_function(a[1], a[2], a[3])
      [] f = "parse_optional_alias" -> parse_optional_alias(a[1], a[2], a[3])
      [] f = "parse_parenthesized_column_list" -> parse_parenthesized_column_list(a[1], a[2], a[3])
      [] f = "parse_optional_table_alias" -> parse_optional_table_alias(a[1], a[2], a[3])
      [] f = "parse_select_item" -> parse_select_item(a[1], a[2])
      [] f = "parse_order_by_expr" -> parse_order_by_expr(a[1], a[2])
      [] f = "parse_offset" -> parse_offset(a[1], a[2])
      [] f = "parse_mysql_limit" -> parse_mysql_limit(a[1], a[2])
      [] f = "parse_values_row" -> parse_values_row(a[1], a[2])
      [] f = "parse_values" -> parse_values(a[1], a[2])
      [] f = "parse_cte" -> parse_cte(a[1], a[2])
      [] f = "parse_set_operator" -> parse_set_operator(a[1])
      [] f = "parse_query_body_loop" -> parse_query_body_loop(a[1], a[2], a[3], a[4], a[5])
      [] f = "parse_query_body" -> parse_query_body(a[1], a[2], a[3])
      [] f = "expect_one_of_keywords" -> expect_one_of_keywords(a[1], a[2], a[3])
      [] f = "parse_fetch" -> parse_fetch(a[1], a[2])
      [] f = "parse_query" -> parse_query(a[1], a[2])
      [] f = "parse_top" -> parse_top(a[1], a[2])
      [] f = "parse_comment_for_select" -> parse_comment_for_select(a[1], a[2])
      [] f = "parse_force_for_select" -> parse_force_for_select(a[1], a[2])
      [] f = "parse_join_constraint" -> parse_join_constraint(a[1], a[2], a[3])
      [] f = "parse_derived_table_factor" -> parse_derived_table_factor(a[1], a[2], a[3])
      [] f = "parse_table_factor_tail" -> parse_table_factor_tail(a[1], a[2], a[3], a[4], a[5], a[6])
      [] f = "parse_table_factor" -> parse_table_factor(a[1], a[2])
      [] f = "parse_join" -> parse_join(a[1], a[2])
      [] f = "parse_joins_loop" -> parse_joins_loop(a[1], a[2], a[3], a[4], a[5])
      [] f = "parse_table_and_joins" -> parse_table_and_joins(a[1], a[2])
      [] f = "parse_select_tail" -> parse_select_tail(a[1], a[2], a[3], a[4], a[5], a[6])
      [] f = "parse_select" -> parse_select(a[1], a[2])
      [] f = "parse_desc" -> parse_desc(a[1], a[2])
      [] f = "parse_use" -> parse_use(a[1], a[2])
      [] f = "parse_unlock" -> parse_unlock(a[1], a[2])
      [] f = "parse_assert" -> parse_assert(a[1], a[2])
      [] f = "parse_delete" -> parse_delete(a[1], a[2])
      [] f = "parse_commit_rollback_chain" -> parse_commit_rollback_chain(a[1], a[2])
      [] f = "parse_commit" -> parse_commit(a[1], a[2])
      [] f = "parse_rollback" -> parse_rollback(a[1], a[2])
      [] f = "parse_transaction_mode" -> parse_transaction_mode(a[1], a[2], a[3])
      [] f = "parse_transaction_modes_loop" -> parse_transaction_modes_loop(a[1], a[2], a[3], a[4], a[5])
      [] f = "parse_transaction_modes" -> parse_transaction_modes(a[1], a[2])
      [] f = "parse_start_transaction" -> parse_start_transaction(a[1], a[2])
      [] f = "parse_begin" -> parse_begin(a[1], a[2])
      [] f = "parse_set_variables_value" -> parse_set_variables_value(a[1], a[2])
      [] f = "parse_set" -> parse_set(a[1], a[2])
      [] f = "parse_referential_action" -> parse_referential_action(a[1], a[2])
      [] f = "parse_references_loop" -> parse_references_loop(a[1], a[2], a[3], a[4], a[5])
      [] f = "parse_column_option_expr" -> parse_column_option_expr(a[1], a[2], a[3])
      [] f = "parse_column_option" -> parse_column_option(a[1], a[2])
      [] f = "parse_column_option_def" -> parse_column_option_def(a[1], a[2])
      [] f = "parse_column_options_loop" -> parse_column_options_loop(a[1], a[2], a[3], a[4])
      [] f = "parse_column_def" -> parse_column_def(a[1], a[2])
      [] f = "parse_alter_index_constraint" -> parse_alter_index_constraint(a[1], a[2])
      [] f = "parse_alter_index_storge_type" -> parse_alter_index_storge_type(a[1], a[2])
      [] f = "parse_alter_index_def_options" -> parse_alter_index_def_options(a[1], a[2])
      [] f = "parse_alter_index_def_tail" -> parse_alter_index_def_tail(a[1], a[2], a[3], a[4], a[5])
      [] f = "parse_alter_index_def_primary" -> parse_alter_index_def_primary(a[1], a[2], a[3])
      [] f = "parse_identifier_unless_lparen" -> parse_identifier_unless_lparen(a[1], a[2])
      [] f = "parse_alter_index_def_normal" -> parse_alter_index_def_normal(a[1], a[2], a[3], a[4], a[5])
      [] f = "parse_alter_index_def_for" -> parse_alter_index_def_for(a[1], a[2], a[3])
      [] f = "parse_alter_index_def" -> parse_alter_index_def(a[1], a[2])
      [] f = "parse_alter_drop_index" -> parse_alter_drop_index(a[1], a[2])
      [] f = "parse_index_info" -> parse_index_info(a[1], a[2])
      [] f = "parse_alter_add_index" -> parse_alter_add_index(a[1], a[2])
      [] f = "parse_optional_table_constraint" -> parse_optional_table_constraint(a[1], a[2])
      [] f = "parse_create_table_for_index" -> parse_create_table_for_index(a[1], a[2])
      [] f = "parse_columns_item" -> parse_columns_item(a[1], a[2])
      [] f = "parse_columns_loop" -> parse_columns_loop(a[1], a[2], a[3], a[4])
      [] f = "parse_columns" -> parse_columns(a[1], a[2])
      [] f = "parse_sql_option" -> parse_sql_option(a[1], a[2])
      [] f = "parse_with_options" -> parse_with_options(a[1], a[2])
      [] f = "consume_table_option_token" -> consume_table_option_token(a[1], a[2])
      [] f = "parse_table_option_expr" -> parse_table_option_expr(a[1], a[2], a[3], a[4])
      [] f = "parse_table_option_def" -> parse_table_option_def(a[1], a[2])
      [] f = "parse_table_options_loop" -> parse_table_options_loop(a[1], a[2], a[3], a[4])
      [] f = "parse_table_options" -> parse_table_options(a[1], a[2])
      [] f = "parse_create_table" -> parse_create_table(a[1], a[2])
      [] f = "parse_create_schema" -> parse_create_schema(a[1], a[2])
      [] f = "parse_create" -> parse_create(a[1], a[2])
      [] f = "parse_drop" -> parse_drop(a[1], a[2])
      [] f = "parse_alter_add" -> parse_alter_add(a[1], a[2])
      [] f = "parse_alter_operation" -> parse_alter_operation(a[1], a[2])
      [] f = "parse_alter_loop" -> parse_alter_loop(a[1], a[2], a[3], a[4])
      [] f = "parse_alter" -> parse_alter(a[1], a[2])
      [] f = "parse_call_parameter_loop" -> parse_call_parameter_loop(a[1], a[2], a[3], a[4], a[5])
      [] f = "parse_call_parameter" -> parse_call_parameter(a[1], a[2])
      [] f = "parse_call" -> parse_call(a[1], a[2])
      [] f = "parse_tab_value_loop" -> parse_tab_value_loop(a[1], a[2], a[3], a[4], a[5])
      [] f = "parse_tab_value" -> parse_tab_value(a[1], a[2])
      [] f = "expect_keywords" -> expect_keywords(a[1], a[2], a[3])
      [] f = "parse_copy" -> parse_copy(a[1], a[2])
      [] f = "parse_assignment" -> parse_assignment(a[1], a[2])
      [] f = "parse_on_duplicate_key_update" -> parse_on_duplicate_key_update(a[1], a[2])
      [] f = "parse_insert" -> parse_insert(a[1], a[2])
      [] f = "parse_update" -> parse_update(a[1], a[2])
      [] f = "parse_query_statement" -> parse_query_statement(a[1], a[2])
      [] f = "parse_show_statement_filter" -> parse_show_statement_filter(a[1], a[2])
      [] f = "parse_show_columns" -> parse_show_columns(a[1], a[2])
      [] f = "parse_show" -> parse_show(a[1], a[2])
      [] f = "parse_statement" -> parse_statement(a[1], a[2])
      [] f = "parse_item" -> parse_item(a[1], a[2], a[3])
      [] f = "skip_delimiters" -> skip_delimiters(a[1], a[2], a[3])
      [] f = "parse_sql_iteration" -> parse_sql_iteration(a[1], a[2], a[3])
      [] f = "parse_sql_loop" -> parse_sql_loop(a[1], a[2], a[3], a[4])
      [] f = "parse_sql" -> parse_sql(a[1])
-----------------------------------------------------------------------------
(* Display: the text of a statement, as the sequence of its lexemes with   *)
(* " " for each space that the format strings write                        *)

\* display_separated(slice, sep)
RECURSIVE display_separated(_, _)
display_separated(items, sep) ==
    IF items = <<>> THEN <<>>
    ELSE IF Len(items) = 1 THEN items[1]
    ELSE items[1] \o sep \o display_separated(Tail(items), sep)

\* impl Display for ObjectName, over Ident without a quote style
display_object_name(name) == display_separated([k \in 1..Len(name) |-> <<name[k]>>], <<".">>)

\* impl Display for Value: a number is written as its text
display_value(v) == <<v[2]>>

\* impl Display for SetVariableValue
display_set_variable_value(v) == IF v[1] = "Ident" THEN <<v[2]>> ELSE display_value(v[2])

\* impl Display for TransactionMode, TransactionAccessMode, TransactionIsolationLevel
display_transaction_mode(m) ==
    IF m[1] = "AccessMode"
    THEN (IF m[2] = "ReadOnly" THEN <<"READ", " ", "ONLY">> ELSE <<"READ", " ", "WRITE">>)
    ELSE <<"ISOLATION", " ", "LEVEL", " ">> \o
         (CASE m[2] = "ReadUncommitted" -> <<"READ", " ", "UNCOMMITTED">>
            [] m[2] = "ReadCommitted" -> <<"READ", " ", "COMMITTED">>
            [] m[2] = "RepeatableRead" -> <<"REPEATABLE", " ", "READ">>
            [] OTHER -> <<"SERIALIZABLE">>)

display_transaction_modes(modes) ==
    IF modes = <<>> THEN <<>>
    ELSE <<" ">> \o display_separated([k \in 1..Len(modes) |-> display_transaction_mode(modes[k])],
                                      <<",", " ">>)

\* the values whose text this model renders
RenderableValue(v) == IF v[1] = "Ident" THEN TRUE ELSE v[2][1] = "Number"

\* the statements whose text this model renders
Renderable(S) ==
    \/ S[1] \in {"UNLock", "ChangeDatabase", "Desc", "Commit", "Rollback", "CreateSchema",
                 "StartTransaction", "SetTransaction"}
    \/ S[1] = "Delete" /\ S[3] = None
    \/ S[1] = "SetVariable" /\ RenderableValue(S[4])
    \/ S[1] = "AdminSetVariable" /\ S[4] = None /\ RenderableValue(S[3])

\* impl Display for Statement
display_statement(S) ==
    CASE S[1] = "Delete" -> <<"DELETE", " ", "FROM", " ">> \o display_object_name(S[2])
      [] S[1] = "SetVariable" ->
            <<"SET", " ">> \o (IF S[2] THEN <<"LOCAL", " ">> ELSE <<>>) \o
            <<S[3], " ", "=", " ">> \o display_set_variable_value(S[4])
      [] S[1] = "AdminSetVariable" ->
            <<"SET", " ", S[2], " ", "=", " ">> \o display_set_variable_value(S[3])
      [] S[1] = "StartTransaction" ->
            <<"START", " ", "TRANSACTION">> \o display_transaction_modes(S[2])
      [] S[1] = "SetTransaction" ->
            <<"SET", " ", "TRANSACTION">> \o display_transaction_modes(S[2])
      [] S[1] = "Commit" -> <<"COMMIT">> \o (IF S[2] THEN <<" ", "AND", " ", "CHAIN">> ELSE <<>>)
      [] S[1] = "Rollback" -> <<"ROLLBACK">> \o (IF S[2] THEN <<" ", "AND", " ", "CHAIN">> ELSE <<>>)
      [] S[1] = "UNLock" -> <<"UNLOCK">> \o (IF S[2] THEN <<" ", "AND", " ", "CHAIN">> ELSE <<>>)
      [] S[1] = "CreateSchema" -> <<"CREATE", " ", "SCHEMA", " ">> \o display_object_name(S[2])
      [] S[1] = "ChangeDatabase" -> <<"USE", " ", S[2]>>
      [] S[1] = "Desc" -> <<"DESC", " ">> \o display_object_name(S[2])

\* Tokenizer::tokenize on a rendered text: a space is a Whitespace token, a
\* word, number or punctuation lexeme is the token of that text
tokenize(lexemes) == [k \in 1..Len(lexemes) |-> IF lexemes[k] = " " THEN "WS" ELSE lexemes[k]]

-----------------------------------------------------------------------------
(* Scripts: the inputs of parse_sql                                        *)

\* COPY reads its rows token by token, so its text is not respaced
CopyStatement ==
    <<"COPY", "WS", "t", "WS", "FROM", "WS", "STDIN", ";", "a", "TAB", "b", "NL", "\\", ".">>

Statements ==
    { Spaced(s) : s \in {
        <<"SELECT", "1">>,
        <<"SELECT", "a", "FROM", "t", "WHERE", "x", "=", "1">>,
        <<"SELECT", "a", ",", "b", "FROM", "t", "ORDER", "BY", "a", "LIMIT", "1">>,
        <<"SELECT", "a", "FROM", "t", "JOIN", "u", "ON", "a", "=", "b">>,
        <<"USE", "db">>,
        <<"UNLOCK", "TABLES">>,
        <<"SET", "x", "=", "1">>,
        <<"SET", "LOCAL", "x", "=", "y">>,
        <<"SET", "TRANSACTION", "ISOLATION", "LEVEL", "SERIALIZABLE">>,
        <<"COMMIT">>,
        <<"ROLLBACK", "AND", "CHAIN">>,
        <<"DESC", "t", ".", "u">>,
        <<"DELETE", "FROM", "t">>,
        <<"DELETE", "FROM", "t", "WHERE", "x", "=", "1">>,
        <<"CREATE", "TABLE", "t", "(", "a", "INT", ")">>,
        <<"CREATE", "TABLE", "t", "(", "a", "INT", ")", "ENGINE", "=", "x">>,
        <<"CREATE", "TABLE", "t", "AUTO_INCREMENT", "=", "2">>,
        <<"CREATE", "TABLE", "t", "AUTO_INCREMENT", "=", "1.5">>,
        <<"CREATE", "TABLE", "t", "(", "a", "INT", "REFERENCES", "u", "ON", "DELETE",
          "CASCADE", ")">>,
        <<"CREATE", "SCHEMA", "s">>,
        <<"ALTER", "TABLE", "t", "DROP", "COLUMN", "c">>,
        <<"ALTER", "TABLE", "t", "ADD", "COLUMN", "c", "INT", "NOT", "NULL">>,
        <<"CALL", "f", "(", "1", ")">>,
        <<"CALL", "f">>,
        <<"START", "TRANSACTION", "READ", "ONLY", ",", "READ", "WRITE">>,
        <<"BEGIN">>,
        <<"INSERT", "INTO", "t", "(", "a", ")", "VALUES", "(", "1", ")">>,
        <<"UPDATE", "t", "SET", "a", "=", "1", "WHERE", "b", "=", "2">>,
        <<"DROP", "TABLE", "t">>,
        <<"ASSERT", "x", "=", "1">> } }
    \cup {CopyStatement}

\* what follows the separator in a script; the last one is not a statement
SecondStatements ==
    { Spaced(s) : s \in { <<"SELECT", "1">>, <<"SET", "x", "=", "1">>, <<"COMMIT">>,
                          <<"DELETE", "t">> } }

MaxSemicolons == 2

\* a run of k statement delimiters, each followed by a space
RECURSIVE Semicolons(_)
Semicolons(k) == IF k = 0 THEN <<>> ELSE <<";", "WS">> \o Semicolons(k - 1)

\* the script: l delimiters, s1, a space, k delimiters, s2
Script(l, s1, k, s2) == Semicolons(l) \o s1 \o <<"WS">> \o Semicolons(k) \o s2

ScriptInputs ==
    { [family |-> "script", s1 |-> s1, s2 |-> s2, k |-> k, l |-> l,
       toks |-> Script(l, s1, k, s2)] :
        s1 \in Statements, s2 \in SecondStatements \cup {<<>>}, k \in 0..MaxSemicolons,
        l \in 0..1 }

\* every proper prefix of every statement
PrefixInputs ==
    UNION { { [family |-> "prefix", s1 |-> SubSeq(s, 1, n), s2 |-> <<>>, k |-> 0, l |-> 0,
               toks |-> SubSeq(s, 1, n)] : n \in 0..(Len(s) - 1) } : s \in Statements }

Inputs == ScriptInputs \cup PrefixInputs

-----------------------------------------------------------------------------
(* parse_sql, one loop iteration per step                                  *)

Init ==
    /\ \E inp \in Inputs :
          /\ tokens = inp.toks
          /\ hist = [family |-> inp.family, s1 |-> inp.s1, s2 |-> inp.s2, k |-> inp.k,
                     l |-> inp.l, log |-> <<>>, pass |-> 1, S |-> None]
    /\ dialect_type \in Dialects
    /\ index = 0
    /\ pc = "loop"
    /\ stmts = <<>>
    /\ expecting_statement_delimiter = FALSE
    /\ ret = None

\* the iteration that the loop of parse_sql runs from the current state
Iteration == Call("parse_sql_iteration", <<tokens, index, expecting_statement_delimiter>>)

\* hist.log gets one entry per iteration
Logged(it) ==
    [hist EXCEPT !.log = Append(@, [pass |-> hist.pass, from |-> index, at |-> it.at,
                                    st |-> it.st, end |-> it.i, v |-> it.v])]

\* if parser.peek_token() == Token::EOF { break; } ... Ok(stmts)
LoopBreak ==
    /\ pc = "loop"
    /\ \E it \in {Iteration} :
          /\ it.st = "break"
          /\ ret' = return_ok(stmts)
          /\ index' = it.i
          /\ expecting_statement_delimiter' = it.expecting
          /\ hist' = Logged(it)
    /\ pc' = "ok"
    /\ stmts' = <<>>
    /\ UNCHANGED <<tokens, dialect_type>>

\* return parser.expected("end of statement", parser.peek_token())
LoopDelimiterError ==
    /\ pc = "loop"
    /\ \E it \in {Iteration} :
          /\ it.st = "delimiter"
          /\ ret' = return_err(it.v, stmts)
          /\ index' = it.i
          /\ expecting_statement_delimiter' = it.expecting
          /\ hist' = Logged(it)
    /\ pc' = "err"
    /\ stmts' = <<>>
    /\ UNCHANGED <<tokens, dialect_type>>

\* let statement = parser.parse_statement()?; stmts.push(statement); ..
StatementOk ==
    /\ pc = "loop"
    /\ \E it \in {Iteration} :
          /\ it.st = "ok"
          /\ stmts' = Append(stmts, it.v)
          /\ index' = it.i
          /\ expecting_statement_delimiter' = it.expecting
          /\ hist' = Logged(it)
    /\ UNCHANGED <<tokens, dialect_type, pc, ret>>

\* parser.parse_statement()? with an Err
StatementErr ==
    /\ pc = "loop"
    /\ \E it \in {Iteration} :
          /\ it.st = "err"
          /\ ret' = return_err(it.v, stmts)
          /\ index' = it.i
          /\ expecting_statement_delimiter' = it.expecting
          /\ hist' = Logged(it)
    /\ pc' = "err"
    /\ stmts' = <<>>
    /\ UNCHANGED <<tokens, dialect_type>>

\* parse_statement does not return: a panic unwinds out of parse_sql
StatementAbort ==
    /\ pc = "loop"
    /\ \E it \in {Iteration} :
          /\ it.st \notin {"break", "delimiter", "ok", "err"}
          /\ pc' = it.st
          /\ ret' = <<it.st, it.v>>
          /\ index' = it.i
          /\ hist' = Logged(it)
    /\ stmts' = <<>>
    /\ UNCHANGED <<tokens, dialect_type, expecting_statement_delimiter>>

\* a statement that parse_sql returned is rendered, and the text is given
\* to parse_sql again under the same dialect
Render ==
    /\ pc = "ok"
    /\ hist.pass = 1
    /\ \E n \in 1..Len(ret[2]) :
          /\ Renderable(ret[2][n])
          /\ tokens' = tokenize(display_statement(ret[2][n]))
          /\ hist' = [hist EXCEPT !.pass = 2, !.S = ret[2][n]]
    /\ index' = 0
    /\ pc' = "loop"
    /\ stmts' = <<>>
    /\ expecting_statement_delimiter' = FALSE
    /\ ret' = None
    /\ UNCHANGED dialect_type

Next ==
    \/ LoopBreak
    \/ LoopDelimiterError
    \/ StatementOk
    \/ StatementErr
    \/ StatementAbort
    \/ Render

Spec == Init /\ [][Next]_vars

\* the values of pc: the loop head, and the ways a call of parse_sql ends
PcValues == {"loop", "ok", "err", "panic", "diverge", "unmodelled"}

\* the cursor never goes further than this
IndexBound == Len(tokens) + 2

\* the shape of every step that Next takes from the loop head: the call ends,
\* or the cursor has moved.  It is enabled exactly when pc = "loop".
IterationStep ==
    /\ pc = "loop"
    /\ pc' \in PcValues
    /\ index' \in 0..IndexBound

\* parse_sql is sequential code: at the loop head it runs the next iteration
SpecFair == Spec /\ WF_<<pc, index>>(IterationStep)

\* pc and index stay in the ranges IterationStep draws from
IterationStepCoversNext == pc \in PcValues /\ index \in 0..IndexBound

\* every step from the loop head is an IterationStep that ends the call or
\* moves the cursor
IterationAdvances == [][pc = "loop" => (IterationStep /\ <<pc, index>>' # <<pc, index>>)]_vars

\* a call of parse_sql leaves the loop with Ok, with Err or by a panic
EndsWithResultOrPanic == (pc = "loop") ~> (pc \in {"ok", "err", "panic"})

\* every input stays inside the modelled part of the parser
ModelCoversInputs == pc # "unmodelled"

\* no loop of the parser runs past the iteration bound
NoLoopDiverges == pc # "diverge"

\* the steps compute what parse_sql computes
StepsAgreeWithParseSql == pc \in {"ok", "err", "panic"} => ret = Call("parse_sql", <<tokens>>)

-----------------------------------------------------------------------------
(* Properties of the script driver                                         *)

\* the log entries of the current call of parse_sql
PassLog == SelectSeq(hist.log, LAMBDA e : e.pass = hist.pass)

\* 0-based position of the first `;` that separates s1 from what follows
SeparatorPos == 2 * hist.l + Len(hist.s1) + 1

\* C1: round trip.  When a statement S that parse_sql returned is rendered
\* and the text is parsed again under the same dialect, parse_sql succeeds
\* and the first statement of its result equals S.
C1_RoundTrip ==
    hist.pass = 2 =>
        /\ pc \notin {"err", "panic"}
        /\ pc = "ok" => (ret[1] = "Ok" /\ ret[2] # <<>> /\ ret[2][1] = hist.S)

\* the rendered text of an UNLock statement was parsed and rejected
C1_Witness == hist.pass = 2 /\ pc = "err" /\ hist.S[1] = "UNLock"

\* C2: statements are parsed in isolation.  If s1 and s2 each parse alone to
\* the single statements a1 and a2, parse_sql on the script s1 ; s2 returns
\* Ok([a1, a2]).
C2_ParsedInIsolation ==
    (/\ hist.family = "script" /\ hist.pass = 1 /\ hist.k = 1 /\ hist.l = 0
     /\ hist.s2 # <<>> /\ pc \in {"ok", "err", "panic"}) =>
        LET r1 == Call("parse_sql", <<hist.s1>>)
            r2 == Call("parse_sql", <<hist.s2>>)
        IN (/\ r1[1] = "Ok" /\ Len(r1[2]) = 1
            /\ r2[1] = "Ok" /\ Len(r2[2]) = 1) => ret = <<"Ok", <<r1[2][1], r2[2][1]>> >>

\* s1 ; s2 is rejected although s1 and s2 each parse alone
C2_Witness ==
    /\ hist.family = "script" /\ hist.pass = 1 /\ hist.k = 1 /\ hist.l = 0
    /\ hist.s2 # <<>> /\ pc = "err"
    /\ Call("parse_sql", <<hist.s1>>)[1] = "Ok" /\ Call("parse_sql", <<hist.s2>>)[1] = "Ok"

\* C3: parse_statement stops before the separator.  When the first statement
\* of a script is followed by `;` and parse_statement returned Ok for it, the
\* cursor is not past that `;` and the next non-whitespace token is the `;`.
C3_StopsBeforeSeparator ==
    (/\ hist.family = "script" /\ hist.pass = 1 /\ hist.k >= 1
     /\ hist.log # <<>> /\ hist.log[1].st = "ok") =>
        /\ hist.log[1].end <= SeparatorPos
        /\ peek_token(tokens, hist.log[1].end) = ";"

\* parse_statement returned Ok with the cursor behind the separator
C3_Witness ==
    /\ hist.family = "script" /\ hist.pass = 1 /\ hist.k >= 1
    /\ hist.log # <<>> /\ hist.log[1].st = "ok"
    /\ hist.log[1].end > SeparatorPos

\* C4: the delimiter rule of parse_sql.  Before each statement only `;`
\* tokens (and whitespace) are skipped, and the whole run of them; the loop
\* ends with Ok of the parsed statements exactly when the next token is EOF;
\* after a parsed statement a next token other than `;` and EOF gives the
\* error Expected end of statement, found: <token>, and that is the last
\* thing parse_sql does.
C4_DelimiterRule ==
    LET L == PassLog
    IN \A n \in 1..Len(L) :
          /\ \A j \in L[n].from..(L[n].at - 1) : TokGet(tokens, j) \in Whitespace \cup {";"}
          /\ peek_token(tokens, L[n].at) # ";"
          /\ L[n].st = "break" <=> peek_token(tokens, L[n].at) = EOF
          /\ L[n].st = "delimiter" <=> (n > 1 /\ peek_token(tokens, L[n].from) \notin {";", EOF})
          /\ L[n].st = "delimiter" =>
                /\ n = Len(L) /\ pc = "err"
                /\ ret = <<"Err", <<"Expected", "end of statement",
                                    peek_token(tokens, L[n].from)>> >>
          /\ L[n].st = "break" =>
                /\ n = Len(L) /\ pc = "ok"
                /\ ret[1] = "Ok" /\ Len(ret[2]) = n - 1
                /\ \A m \in 1..(n - 1) : L[m].st = "ok" /\ ret[2][m] = L[m].v

\* a leading `;` was skipped, a statement was parsed, and the token after it
\* was refused
C4_Witness ==
    /\ pc = "err" /\ hist.pass = 1 /\ hist.l = 1 /\ Len(hist.log) = 2
    /\ hist.log[1].st = "ok" /\ hist.log[1].at > hist.log[1].from
    /\ hist.log[2].st = "delimiter"

\* C5: no partial result.  The first iteration that fails (a statement that
\* does not parse, or the delimiter check) is the last one, and parse_sql
\* returns its error and nothing else; the statements parsed before it are
\* not part of the result.
C5_NoPartialResult ==
    LET L == PassLog
    IN /\ \A n \in 1..Len(L) :
             L[n].st \in {"err", "delimiter"} =>
                 n = Len(L) /\ pc = "err" /\ ret = <<"Err", L[n].v>>
       /\ pc = "err" =>
             /\ L # <<>> /\ L[Len(L)].st \in {"err", "delimiter"}
             /\ \A n \in 1..(Len(L) - 1) : L[n].st = "ok"

\* the second statement of a script failed to parse after the first was parsed
C5_Witness ==
    /\ pc = "err" /\ hist.pass = 1 /\ Len(hist.log) = 2
    /\ hist.log[1].st = "ok" /\ hist.log[2].st = "err"

\* C6: no token sequence drives parse_sql into a panic.
C6_NoPanic == pc # "panic"

\* the unwrap of parse_table_option_def panicked
C6_Witness == pc = "panic" /\ ret[2] = <<"panic", "unwrap on an Err value">>

\* C7: every call of parse_sql ends by returning Ok or Err.
C7_Terminates == (pc = "loop") ~> (pc \in {"ok", "err"})


-----------------------------------------------------------------------------
(* Speculative parsing: maybe_parse and parse_keywords on their own        *)

MaxSpeculativeLen == 4

SpeculativeAlphabet == {"DATE", "'s'", "SELECT", "1", ")", "WS"}

\* the keyword sequences given to parse_keywords
KeywordSeqs == {<<"DATE">>, <<"SELECT", "DATE">>, <<"DATE", "SELECT", "DATE">>}

\* Parser::new, with the cursor on the first or the second token
InitSpeculative ==
    /\ tokens \in SeqsUpTo(SpeculativeAlphabet, MaxSpeculativeLen)
    /\ dialect_type \in Dialects
    /\ index \in 0..1
    /\ index <= Len(tokens)
    /\ pc = "speculate"
    /\ stmts = <<>>
    /\ expecting_statement_delimiter = FALSE
    /\ ret = None
    /\ hist = [family |-> "speculate", toks |-> tokens, dialect |-> dialect_type,
               before |-> index, f |-> None, kws |-> <<>>]

\* self.maybe_parse(f): hist.f is what f returned
MaybeParse(f) ==
    LET r == maybe_parse(f, index)
    IN /\ index' = r.i
       /\ ret' = <<r.st, r.v>>
       /\ hist' = [hist EXCEPT !.f = f]
       /\ pc' = "maybe_parse"
       /\ UNCHANGED <<tokens, dialect_type, stmts, expecting_statement_delimiter>>

\* parse_prefix: self.maybe_parse(|parser| .. TypedString ..)
MaybeParseTypedString ==
    /\ pc = "speculate"
    /\ MaybeParse(Call("parse_typed_string", <<tokens, index>>))

\* parse_table_factor: self.maybe_parse(|parser| parser.parse_derived_table_factor(NotLateral))
MaybeParseDerivedTable ==
    /\ pc = "speculate"
    /\ MaybeParse(Call("parse_derived_table_factor", <<tokens, index, FALSE>>))

\* self.parse_keywords(kws)
ParseKeywords ==
    /\ pc = "speculate"
    /\ \E kws \in KeywordSeqs :
          \E r \in {Call("parse_keywords", <<tokens, index, kws>>)} :
             /\ index' = r[2]
             /\ ret' = <<r[1]>>
             /\ hist' = [hist EXCEPT !.kws = kws]
    /\ pc' = "parse_keywords"
    /\ UNCHANGED <<tokens, dialect_type, stmts, expecting_statement_delimiter>>

NextSpeculative == MaybeParseTypedString \/ MaybeParseDerivedTable \/ ParseKeywords

SpecSpeculative == InitSpeculative /\ [][NextSpeculative]_vars

\* C11: maybe_parse is a checkpoint.  When f returned an error the cursor is
\* where it was before the call and the result is None; when f succeeded the
\* cursor is where f left it and the result is f's value; the token vector
\* and the dialect are what they were.
C11_MaybeParseCheckpoint ==
    pc = "maybe_parse" =>
        /\ tokens = hist.toks /\ dialect_type = hist.dialect
        /\ hist.f.st = "err" => (index = hist.before /\ ret = <<"none", None>>)
        /\ hist.f.st = "ok" => (index = hist.f.i /\ ret = <<"ok", hist.f.v>>)

\* f consumed more than one token before it failed, and the cursor is back
C11_Witness ==
    /\ pc = "maybe_parse" /\ hist.f.st = "err"
    /\ hist.f.i > hist.before + 1 /\ index = hist.before

\* the tokens from the 0-based position i on that are not whitespace
NonWhitespaceFrom(toks, i) ==
    SelectSeq(SubSeq(toks, i + 1, Len(toks)), LAMBDA t : ~IsWhitespace(t))

\* the 0-based position just past the n-th non-whitespace token from i on
RECURSIVE PastNth(_, _, _)
PastNth(toks, i, n) ==
    IF n = 0 THEN i
    ELSE IF IsWhitespace(TokGet(toks, i)) THEN PastNth(toks, i + 1, n)
    ELSE PastNth(toks, i + 1, n - 1)

\* C12: parse_keywords is all-or-nothing.  It returns true exactly when the
\* next non-whitespace tokens are the keywords in order, and then the cursor
\* is just past the last of them; when it returns false the cursor is where
\* it was before the call.
C12_ParseKeywordsAllOrNothing ==
    pc = "parse_keywords" =>
        LET nw == NonWhitespaceFrom(tokens, hist.before)
            n == Len(hist.kws)
            matches == Len(nw) >= n /\ SubSeq(nw, 1, n) = hist.kws
        IN /\ ret[1] = matches
           /\ matches => index = PastNth(tokens, hist.before, n)
           /\ ~matches => index = hist.before

\* the first keyword matched, a later one did not, and the cursor is back
C12_Witness ==
    /\ pc = "parse_keywords" /\ ret[1] = FALSE /\ Len(hist.kws) > 1
    /\ peek_token(tokens, hist.before) = hist.kws[1]
    /\ index = hist.before


-----------------------------------------------------------------------------
(* Trivia: parse_sql on a token vector and on the same vector with a run   *)
(* of whitespace or comment tokens inserted, or with one such token removed *)

MaxTriviaRun == 2

TriviaBases ==
    Statements
    \cup { Spaced(s) : s \in { <<"SELECT", "BC", "1">>, <<"SELECT", "LC", "BC", "a", "FROM", "t">>,
                               <<"SELECT", "1", ";", "COMMIT">>, <<"DELETE", "t">>,
                               <<"SELECT", "a", "FROM">>, <<"VALUES", "(", "1", ")">> } }

RECURSIVE Run(_, _)
Run(t, n) == IF n = 0 THEN <<>> ELSE <<t>> \o Run(t, n - 1)

InitTrivia ==
    /\ tokens \in TriviaBases
    /\ dialect_type \in Dialects
    /\ index = 0
    /\ pc = "parse"
    /\ stmts = <<>>
    /\ expecting_statement_delimiter = FALSE
    /\ ret = None
    /\ hist = [family |-> "trivia", base |-> tokens, first |-> None, edit |-> None]

\* Parser::parse_sql on the token vector as given
ParseSqlFirst ==
    /\ pc = "parse"
    /\ ret' = Call("parse_sql", <<tokens>>)
    /\ hist' = [hist EXCEPT !.first = ret']
    /\ pc' = "parsed"
    /\ UNCHANGED <<tokens, dialect_type, index, stmts, expecting_statement_delimiter>>

\* the text gets a run of n tokens t behind its first p tokens
InsertTrivia ==
    /\ pc = "parsed"
    /\ \E p \in 0..Len(tokens), t \in Whitespace, n \in 1..MaxTriviaRun :
          /\ tokens' = SubSeq(tokens, 1, p) \o Run(t, n) \o SubSeq(tokens, p + 1, Len(tokens))
          /\ hist' = [hist EXCEPT !.edit = <<"insert", p, t>>]
    /\ pc' = "edited"
    /\ ret' = None
    /\ UNCHANGED <<dialect_type, index, stmts, expecting_statement_delimiter>>

\* the text loses the whitespace or comment token behind its first p tokens
RemoveTrivia ==
    /\ pc = "parsed"
    /\ \E p \in 0..(Len(tokens) - 1) :
          /\ tokens[p + 1] \in Whitespace
          /\ tokens' = SubSeq(tokens, 1, p) \o SubSeq(tokens, p + 2, Len(tokens))
          /\ hist' = [hist EXCEPT !.edit = <<"remove", p, tokens[p + 1]>>]
    /\ pc' = "edited"
    /\ ret' = None
    /\ UNCHANGED <<dialect_type, index, stmts, expecting_statement_delimiter>>

\* Parser::parse_sql on the edited token vector
ParseSqlAgain ==
    /\ pc = "edited"
    /\ ret' = Call("parse_sql", <<tokens>>)
    /\ pc' = "reparsed"
    /\ UNCHANGED <<tokens, dialect_type, index, stmts, expecting_statement_delimiter, hist>>

NextTrivia == ParseSqlFirst \/ InsertTrivia \/ RemoveTrivia \/ ParseSqlAgain

SpecTrivia == InitTrivia /\ [][NextTrivia]_vars

\* the 1-based position of the first token t of toks behind position from, or
\* Len(toks) + 1
RECURSIVE PositionOf(_, _, _)
PositionOf(toks, t, from) ==
    IF from >= Len(toks) THEN Len(toks) + 1
    ELSE IF toks[from + 1] = t THEN from + 1
    ELSE PositionOf(toks, t, from + 1)

\* the edit is inside the rows of a COPY .. FROM STDIN; statement: behind the
\* `;` that follows STDIN and before the `\` of the end marker
EditInCopyPayload ==
    LET toks == hist.base
        stdin == PositionOf(toks, "STDIN", 0)
        from == PositionOf(toks, ";", stdin)
        to == PositionOf(toks, "\\", from)
        p == hist.edit[2]
    IN /\ stdin <= Len(toks)
       /\ IF hist.edit[1] = "insert" THEN from <= p /\ p < to
          ELSE from <= p /\ p + 1 < to

\* the edit is directly behind a SELECT keyword: only spaces, tabs, newlines
\* and line comments are between the keyword and the edit
EditAfterSelect ==
    LET toks == hist.base
        p == hist.edit[2]
    IN \E q \in 1..p :
          /\ toks[q] = "SELECT"
          /\ \A j \in (q + 1)..p : toks[j] \in {"WS", "TAB", "NL", "LC"}

\* C13 as the specification states it: a space, tab or newline token more
\* or less, at any position, does not change the result of parse_sql.
C13_WhitespaceInsensitive ==
    (pc = "reparsed" /\ hist.edit[3] \in {"WS", "TAB", "NL"}) => ret = hist.first

\* C13: a space, tab or newline token more or less does not change the
\* result of parse_sql, at any position outside the rows of a COPY statement.
C13_WhitespaceInsensitiveOutsideCopy ==
    (pc = "reparsed" /\ hist.edit[3] \in {"WS", "TAB", "NL"} /\ ~EditInCopyPayload) =>
        ret = hist.first

\* whitespace was put between two tokens of a statement that parses, outside
\* a COPY payload, and the text was parsed again
C13_Witness ==
    /\ pc = "reparsed" /\ hist.edit[1] = "insert" /\ hist.edit[3] = "NL"
    /\ hist.edit[2] > 0 /\ hist.edit[2] < Len(hist.base)
    /\ ~EditInCopyPayload /\ hist.first[1] = "Ok" /\ hist.first[2] # <<>>

\* the comment field of the Select of a statement that is a plain SELECT
SelectComment(r) == r[2][1][2][3][2][2]

\* the first token behind the leading SELECT that is not a space, tab,
\* newline or line comment
RECURSIVE FirstBehindSelect(_, _)
FirstBehindSelect(toks, j) ==
    IF j > Len(toks) THEN EOF
    ELSE IF toks[j] \in {"WS", "TAB", "NL", "LC"} THEN FirstBehindSelect(toks, j + 1)
    ELSE toks[j]

\* C14 as the specification states it: a comment token more or less, at any
\* position other than directly behind a SELECT keyword, does not change the
\* result of parse_sql.
C14_CommentInsensitive ==
    (pc = "reparsed" /\ hist.edit[3] \in {"LC", "BC"} /\ ~EditAfterSelect) => ret = hist.first

\* C14: a comment token more or less does not change the result of
\* parse_sql, at any position outside the rows of a COPY statement and other
\* than a block comment directly behind a SELECT keyword; and the comment of a
\* leading SELECT is Some exactly when the first token behind the keyword
\* that is not a space, tab, newline or line comment is a block comment.
C14_CommentInsensitiveOutsideCopy ==
    /\ (/\ pc = "reparsed" /\ hist.edit[3] \in {"LC", "BC"} /\ ~EditInCopyPayload
        /\ ~(hist.edit[3] = "BC" /\ EditAfterSelect)) => ret = hist.first
    /\ (/\ pc \in {"parsed", "reparsed"} /\ tokens # <<>> /\ tokens[1] = "SELECT"
        /\ ret[1] = "Ok") =>
          (SelectComment(ret) = Some("BC") <=> FirstBehindSelect(tokens, 2) = "BC")
          /\ SelectComment(ret) \in {None, Some("BC")}

\* a block comment was put directly behind SELECT and became Select.comment
C14_Witness ==
    /\ pc = "reparsed" /\ hist.edit = <<"insert", 1, "BC">> /\ hist.base[1] = "SELECT"
    /\ hist.first[1] = "Ok" /\ SelectComment(hist.first) = None
    /\ ret[1] = "Ok" /\ SelectComment(ret) = Some("BC")

-----------------------------------------------------------------------------
(* VALUE and VALUES: a query body of rows is parsed, its Query is rendered *)
(* and the rendered text is parsed again                                   *)

MaxRows == 2
MaxRowLen == 2

\* the expressions written in a row
RowExprs == {"1", "a"}

\* the tokens of one row: ( e , e )
RowTokens(es) ==
    <<"(">> \o display_separated([k \in 1..Len(es) |-> <<es[k]>>], <<",", "WS">>) \o <<")">>

\* the tokens of `kw row, row`
RowsTokens(kw, rows) ==
    <<kw, "WS">> \o display_separated([k \in 1..Len(rows) |-> RowTokens(rows[k])], <<",", "WS">>)

\* the row lists of the inputs
RowLists == SeqsUpTo(SeqsUpTo(RowExprs, MaxRowLen) \ {<<>>}, MaxRows) \ {<<>>}

\* a statement starts a query at SELECT, WITH, VALUES and `(`, so a body with
\* VALUE is written in parentheses
RowsInputs ==
    { RowsTokens("VALUES", rows) : rows \in RowLists }
    \cup { <<"(">> \o RowsTokens(kw, rows) \o <<")">> : kw \in {"VALUE", "VALUES"}, rows \in RowLists }

\* impl Display for Expr, for an identifier and for a value
display_expr(e) == IF e[1] = "Identifier" THEN <<e[2]>> ELSE display_value(e[2])

\* display_comma_separated(slice)
display_comma_separated(items) == display_separated(items, <<",", " ">>)

\* impl Display for Values: write!(f, "VALUES ") and the rows, each in parentheses
display_values(v) ==
    <<"VALUES", " ">> \o
    display_separated(
        [k \in 1..Len(v[2]) |->
            <<"(">> \o display_comma_separated([n \in 1..Len(v[2][k]) |-> display_expr(v[2][k][n])])
                    \o <<")">>],
        <<",", " ">>)

\* impl Display for SetExpr, for Values, Value and a parenthesized query of them;
\* impl Display for Query writes the body alone when the Query has no other clause
RECURSIVE display_set_expr(_)
display_set_expr(b) ==
    CASE b[1] = "Values" -> display_values(b[2])
      [] b[1] = "Value" -> display_values(b[2])
      [] b[1] = "Query" -> <<"(">> \o display_set_expr(b[2][3]) \o <<")">>

display_query(q) == display_set_expr(q[3])

\* the variant of the innermost body of a Query of rows
RECURSIVE BodyVariant(_)
BodyVariant(q) == IF q[3][1] = "Query" THEN BodyVariant(q[3][2]) ELSE q[3][1]

\* the rows of the innermost body of a Query of rows
RECURSIVE BodyRows(_)
BodyRows(q) == IF q[3][1] = "Query" THEN BodyRows(q[3][2]) ELSE q[3][2][2]

InitValues ==
    /\ tokens \in RowsInputs
    /\ dialect_type \in Dialects
    /\ index = 0
    /\ pc = "parse"
    /\ stmts = <<>>
    /\ expecting_statement_delimiter = FALSE
    /\ ret = None
    /\ hist = [family |-> "values", text |-> tokens, S |-> None]

\* Parser::parse_sql on the text as written
ParseRows ==
    /\ pc = "parse"
    /\ ret' = Call("parse_sql", <<tokens>>)
    /\ pc' = "parsed"
    /\ UNCHANGED <<tokens, dialect_type, index, stmts, expecting_statement_delimiter, hist>>

\* format!("{}", statement) of the Statement::Query that was returned, and the
\* tokens of that text
RenderRows ==
    /\ pc = "parsed"
    /\ ret[1] = "Ok"
    /\ ret[2][1][1] = "Query"
    /\ tokens' = tokenize(display_query(ret[2][1][2]))
    /\ hist' = [hist EXCEPT !.S = ret[2][1]]
    /\ pc' = "rendered"
    /\ ret' = None
    /\ UNCHANGED <<dialect_type, index, stmts, expecting_statement_delimiter>>

\* Parser::parse_sql on the rendered text
ParseRendered ==
    /\ pc = "rendered"
    /\ ret' = Call("parse_sql", <<tokens>>)
    /\ pc' = "reparsed"
    /\ UNCHANGED <<tokens, dialect_type, index, stmts, expecting_statement_delimiter, hist>>

NextValues == ParseRows \/ RenderRows \/ ParseRendered

SpecValues == InitValues /\ [][NextValues]_vars

\* the token t is one of toks
HasToken(toks, t) == \E k \in DOMAIN toks : toks[k] = t

\* the keyword that the text as written has in front of its rows
WrittenKeyword == IF hist.text[1] = "(" THEN hist.text[2] ELSE hist.text[1]

\* a text of rows parses to the variant of its keyword, and to its rows
ValuesParsesToItsVariant ==
    pc = "parsed" =>
        /\ ret[1] = "Ok" /\ Len(ret[2]) = 1 /\ ret[2][1][1] = "Query"
        /\ BodyVariant(ret[2][1][2]) = (IF WrittenKeyword = "VALUE" THEN "Value" ELSE "Values")

\* the rendered text of a Values body has the keyword VALUES
ValuesRendersItsKeyword ==
    (pc = "rendered" /\ BodyVariant(hist.S[2]) = "Values") => HasToken(tokens, "VALUES")

\* C15: VALUE and VALUES are preserved through rendering.  A body written with
\* VALUE parses to SetExpr::Value and one written with VALUES to
\* SetExpr::Values; the rendered text of each variant has its own keyword, and
\* parsing the rendered text gives back the same variant.
C15_ValueKeywordPreserved ==
    /\ ValuesParsesToItsVariant
    /\ pc = "rendered" =>
          HasToken(tokens, IF BodyVariant(hist.S[2]) = "Value" THEN "VALUE" ELSE "VALUES")
    /\ pc = "reparsed" =>
          /\ ret[1] = "Ok" /\ ret[2] # <<>> /\ ret[2][1][1] = "Query"
          /\ BodyVariant(ret[2][1][2]) = BodyVariant(hist.S[2])

\* a body written with VALUE was parsed, rendered and parsed again, and the
\* second parse is a SetExpr::Values of the same rows
C15_Witness ==
    /\ pc = "reparsed" /\ WrittenKeyword = "VALUE" /\ BodyVariant(hist.S[2]) = "Value"
    /\ ret[1] = "Ok" /\ BodyVariant(ret[2][1][2]) = "Values"
    /\ BodyRows(ret[2][1][2]) = BodyRows(hist.S[2])

-----------------------------------------------------------------------------
(* SET: the statement that parse_set builds from what follows the value    *)

SetModifiers == {<<>>, <<"SESSION">>, <<"LOCAL">>}
SetOperators == {"=", "TO"}
SetValues == {"1", "'s'", "b"}
SetTrailers == {<<>>, <<"WHERE", "a">>, <<"WHERE", "a", "=", "1">>, <<";">>, <<";", "COMMIT">>,
                <<"WHERE">>}

SetInputs ==
    { [modifier |-> m, trailer |-> t,
       toks |-> Spaced(<<"SET">> \o m \o <<"x", o, v>> \o t)] :
        m \in SetModifiers, o \in SetOperators, v \in SetValues, t \in SetTrailers }

InitSet ==
    /\ \E inp \in SetInputs :
          /\ tokens = inp.toks
          /\ hist = [family |-> "set", modifier |-> inp.modifier, trailer |-> inp.trailer]
    /\ dialect_type \in Dialects
    /\ index = 0
    /\ pc = "parse"
    /\ stmts = <<>>
    /\ expecting_statement_delimiter = FALSE
    /\ ret = None

\* Parser::parse_sql on a text that starts with a SET statement
ParseSetText ==
    /\ pc = "parse"
    /\ ret' = Call("parse_sql", <<tokens>>)
    /\ pc' = IF ret'[1] = "Ok" THEN "ok" ELSE "err"
    /\ UNCHANGED <<tokens, dialect_type, index, stmts, expecting_statement_delimiter, hist>>

NextSet == ParseSetText

SpecSet == InitSet /\ [][NextSet]_vars

\* the first statement of the result
SetStatement == ret[2][1]

\* the text has WHERE behind the value
HasWhere == hist.trailer # <<>> /\ hist.trailer[1] = "WHERE"

\* a SET statement with a value always parses unless its WHERE has no expression
SetParses == pc = "err" => hist.trailer = <<"WHERE">>

\* with a WHERE behind the value the statement is AdminSetVariable with that
\* selection; at the end of the input it is SetVariable with local iff LOCAL
SetDispatchAtEndOfInput ==
    pc = "ok" =>
        /\ HasWhere => (SetStatement[1] = "AdminSetVariable" /\ SetStatement[4] # None)
        /\ hist.trailer = <<>> =>
              /\ SetStatement[1] = "SetVariable"
              /\ SetStatement[2] = (hist.modifier = <<"LOCAL">>)

\* C16: SET dispatch.  SET [SESSION|LOCAL] variable (= | TO) value is
\* AdminSetVariable exactly when a WHERE expr follows the value, with
\* selection Some(expr); in every other case, also when the value is followed
\* by `;` and further statements, it is SetVariable with local = TRUE iff the
\* modifier is LOCAL.
C16_SetDispatch ==
    pc = "ok" =>
        IF HasWhere
        THEN SetStatement[1] = "AdminSetVariable" /\ SetStatement[4] # None
        ELSE /\ SetStatement[1] = "SetVariable"
             /\ SetStatement[2] = (hist.modifier = <<"LOCAL">>)

\* SET LOCAL x = 1 ; COMMIT was parsed, and its first statement is an
\* AdminSetVariable without a selection
C16_Witness ==
    /\ pc = "ok" /\ hist.modifier = <<"LOCAL">> /\ hist.trailer = <<";", "COMMIT">>
    /\ SetStatement[1] = "AdminSetVariable" /\ SetStatement[4] = None
    /\ Len(ret[2]) = 2

-----------------------------------------------------------------------------
(* LIMIT: the (limit, offset) pair of a query                              *)

LimitNumbers == {"1", "2", "3"}
OffsetRowsWords == {<<>>, <<"ROW">>, <<"ROWS">>}

\* the text of a query with the LIMIT clause c
LimitText(c) == Spaced(<<"SELECT", "a", "FROM", "t", "LIMIT">> \o c)

LimitInputs ==
    { [form |-> "comma", m |-> m, n |-> n, rows |-> r, toks |-> LimitText(<<m, ",", n>> \o r)] :
        m \in LimitNumbers, n \in LimitNumbers, r \in OffsetRowsWords }
    \cup { [form |-> "offset", m |-> m, n |-> n, rows |-> r,
            toks |-> LimitText(<<n, "OFFSET", m>> \o r)] :
        m \in LimitNumbers, n \in LimitNumbers, r \in OffsetRowsWords }
    \cup { [form |-> "limit", m |-> "", n |-> n, rows |-> <<>>, toks |-> LimitText(<<n>>)] :
        n \in LimitNumbers }
    \cup { [form |-> "all", m |-> "", n |-> "", rows |-> <<>>, toks |-> LimitText(<<"ALL">>)] }

InitLimit ==
    /\ \E inp \in LimitInputs :
          /\ tokens = inp.toks
          /\ hist = [family |-> "limit", form |-> inp.form, m |-> inp.m, n |-> inp.n,
                     rows |-> inp.rows]
    /\ dialect_type \in Dialects
    /\ index = 0
    /\ pc = "parse"
    /\ stmts = <<>>
    /\ expecting_statement_delimiter = FALSE
    /\ ret = None

\* Parser::parse_sql on a query with a LIMIT clause
ParseLimitText ==
    /\ pc = "parse"
    /\ ret' = Call("parse_sql", <<tokens>>)
    /\ pc' = IF ret'[1] = "Ok" THEN "ok" ELSE "err"
    /\ UNCHANGED <<tokens, dialect_type, index, stmts, expecting_statement_delimiter, hist>>

NextLimit == ParseLimitText

SpecLimit == InitLimit /\ [][NextLimit]_vars

\* the (limit, offset) pair of the Query that a result holds
LimitPair(r) == <<r[2][1][2][4], r[2][1][2][6]>>

\* Expr::Value(Value::Number(n))
NumberExpr(n) == <<"Value", <<"Number", n>>>>

\* OffsetRows of the word behind the offset
OffsetRowsOf(r) == IF r = <<>> THEN "None" ELSE IF r = <<"ROW">> THEN "Row" ELSE "Rows"

\* every LIMIT clause of the inputs parses
LimitParses == pc # "err"

\* LIMIT n is (Some(n), None), LIMIT ALL is (None, None), and LIMIT n OFFSET m
\* is (Some(n), Some(Offset m))
LimitWithoutComma ==
    pc = "ok" =>
        /\ hist.form = "limit" => LimitPair(ret) = <<Some(NumberExpr(hist.n)), None>>
        /\ hist.form = "all" => LimitPair(ret) = <<None, None>>
        /\ hist.form = "offset" =>
              LimitPair(ret) = <<Some(NumberExpr(hist.n)),
                                 Some(<<"Offset", NumberExpr(hist.m), OffsetRowsOf(hist.rows)>>)>>

\* C17: the comma form of LIMIT.  LIMIT m, n gives the same (limit, offset)
\* pair as LIMIT n OFFSET m, that is limit = n and offset = m; LIMIT n gives
\* (Some(n), None) and LIMIT ALL gives (None, None).
C17_CommaLimit ==
    /\ LimitWithoutComma
    /\ (pc = "ok" /\ hist.form = "comma") =>
          /\ LimitPair(ret) = LimitPair(Call("parse_sql", <<LimitText(<<hist.n, "OFFSET", hist.m>> \o hist.rows)>>))
          /\ LimitPair(ret)[1] = Some(NumberExpr(hist.n))
          /\ LimitPair(ret)[2][2][2] = NumberExpr(hist.m)

\* LIMIT 1, 2 was parsed: the limit is 1 and the offset is 2
C17_Witness ==
    /\ pc = "ok" /\ hist.form = "comma" /\ hist.m = "1" /\ hist.n = "2"
    /\ LimitPair(ret)[1] = Some(NumberExpr("1"))
    /\ LimitPair(ret)[2] = Some(<<"Offset", NumberExpr("2"), OffsetRowsOf(hist.rows)>>)

-----------------------------------------------------------------------------
(* Errors: parse_sql on a statement with one token replaced by a token     *)
(* that does not fit, or cut short, and the token that the error names     *)

\* statements that parse, each token text at most once in a statement
ErrorBases ==
    { <<"SELECT", "a", "FROM", "t", "WHERE", "b", "=", "1">>,
      <<"SELECT", "ALL", "a", "FROM", "t", "ORDER", "BY", "b", "LIMIT", "1">>,
      <<"DELETE", "FROM", "t", "WHERE", "b", "=", "1">>,
      <<"CREATE", "TABLE", "t", "(", "a", "INT", ")", "AUTO_INCREMENT", "=", "2">>,
      <<"SHOW", "CREATE", "TABLE", "t">>,
      <<"INSERT", "INTO", "t", "VALUES", "(", "1", ")">>,
      <<"UPDATE", "t", "SET", "a", "=", "1">>,
      <<"COMMIT", "AND", "CHAIN">>,
      <<"START", "TRANSACTION", "READ", "ONLY">>,
      <<"DROP", "TABLE", "t", "CASCADE">> }

\* a word, a number and a punctuation mark that no statement above has
MisfitTokens == {"zz", "3", "]", "DISTINCT", "RESTRICT"}

\* the text b with its k-th token replaced by m, and b cut behind k tokens
Misfit(b, k, m) == SubSeq(b, 1, k - 1) \o <<m>> \o SubSeq(b, k + 1, Len(b))
CutShort(b, k) == SubSeq(b, 1, k)

ErrorInputs ==
    UNION { { Spaced(Misfit(b, k, m)) : k \in 1..Len(b), m \in MisfitTokens }
            \cup { Spaced(CutShort(b, k)) : k \in 1..Len(b) } : b \in ErrorBases }

InitErrors ==
    /\ tokens \in ErrorInputs
    /\ dialect_type \in Dialects
    /\ index = 0
    /\ pc = "parse"
    /\ stmts = <<>>
    /\ expecting_statement_delimiter = FALSE
    /\ ret = None
    /\ hist = [family |-> "errors"]

\* Parser::parse_sql on the text
ParseMisfit ==
    /\ pc = "parse"
    /\ LET r == Call("parse_sql", <<tokens>>)
       IN /\ ret' = r
          /\ pc' = IF r[1] = "Ok" THEN "ok" ELSE IF r[1] = "Err" THEN "err" ELSE r[1]
    /\ UNCHANGED <<tokens, dialect_type, index, stmts, expecting_statement_delimiter, hist>>

NextErrors == ParseMisfit

SpecErrors == InitErrors /\ [][NextErrors]_vars

\* the error is of the form `Expected <what>, found: <token>`
IsExpectedError(r) == r[1] = "Err" /\ r[2][1] = "Expected"

\* the token that an error of that form names
FoundToken(r) == r[2][3]

\* the number of tokens of toks in front of the token that the error names:
\* every token of an input is there once
FoundAt(toks, found) == IF found = EOF THEN Len(toks) ELSE PositionOf(toks, found, 0) - 1

\* the tokens that may stand in the place of the named token
Replacements == UNION { {b[k] : k \in 1..Len(b)} : b \in ErrorBases } \cup {";"}

\* the texts that may follow the named token
Continuations ==
    {<<>>} \cup UNION { { <<"WS">> \o Spaced(SubSeq(b, k, Len(b))) : k \in 1..Len(b) } : b \in ErrorBases }

\* the mismatch is not in front of the named token: with some other token in
\* its place the parser accepts the text or asks for more
NotBeforeMismatch(toks, found) ==
    \E t \in Replacements :
        LET r == Call("parse_sql", <<SubSeq(toks, 1, FoundAt(toks, found)) \o <<t>> >>)
        IN r[1] = "Ok" \/ (IsExpectedError(r) /\ FoundToken(r) = EOF)

\* the mismatch is not behind the named token: whatever follows the named
\* token, the parser names it again
NotAfterMismatch(toks, found) ==
    found # EOF =>
        \A c \in Continuations :
            LET r == Call("parse_sql", <<SubSeq(toks, 1, FoundAt(toks, found) + 1) \o c>>)
            IN IsExpectedError(r) /\ FoundToken(r) = found

\* every error that parse_sql returns names a token
ErrorsNameAToken == pc = "err" => IsExpectedError(ret)

\* C18: error locality.  Every ParserError has the form `Expected <what>,
\* found: <token>`, and <token> is the token at which the mismatch occurred,
\* the first token the failing parser could not accept: not a token in front
\* of it and not a token behind it.
C18_ErrorLocality ==
    pc = "err" =>
        /\ IsExpectedError(ret)
        /\ NotBeforeMismatch(tokens, FoundToken(ret))
        /\ NotAfterMismatch(tokens, FoundToken(ret))

\* AUTO_INCREMENT = zz was rejected, and the error names the end of the
\* input, the token behind zz
C18_Witness ==
    /\ pc = "err"
    /\ tokens = Spaced(<<"CREATE", "TABLE", "t", "(", "a", "INT", ")", "AUTO_INCREMENT", "=", "zz">>)
    /\ ret = <<"Err", <<"Expected", "table option for auto_increment", EOF>>>>

\* the errors that name a token in front of or behind the mismatch are those of
\* three places: parse_table_option_def after AUTO_INCREMENT, parse_show after
\* CREATE, and "end of statement" after the first word of a keyword pair
\* (ORDER without BY, READ without ONLY) was put back
OtherErrorsAreLocal ==
    (/\ pc = "err"
     /\ IsExpectedError(ret)
     /\ ret[2][2] \notin {"equals sign or TO", "table option for auto_increment", "end of statement"})
    => /\ NotBeforeMismatch(tokens, FoundToken(ret))
       /\ NotAfterMismatch(tokens, FoundToken(ret))

-----------------------------------------------------------------------------
(* CREATE TABLE: the three lists that parse_columns fills                   *)

MaxItems == 3

\* the items of a column list: two columns, definitions that start with each
\* of the words KEY, INDEX, PRIMARY, UNIQUE, FOREIGN, FULLTEXT, CONSTRAINT, and
\* a CHECK constraint
TableItems ==
    { <<"a", "INT">>, <<"b", "INT">>,
      <<"KEY", "k", "(", "a", ")">>,
      <<"INDEX", "k", "(", "a", ")">>,
      <<"PRIMARY", "KEY", "(", "a", ")">>,
      <<"UNIQUE", "(", "a", ")">>,
      <<"UNIQUE", "KEY", "k", "(", "a", ")">>,
      <<"FULLTEXT", "KEY", "k", "(", "a", ")">>,
      <<"FOREIGN", "KEY", "(", "a", ")", "REFERENCES", "u", "(", "b", ")">>,
      <<"CONSTRAINT", "c", "UNIQUE", "(", "a", ")">>,
      <<"CONSTRAINT", "c", "UNIQUE", "KEY", "k", "(", "a", ")">>,
      <<"CHECK", "(", "a", ")">> }

\* the text of CREATE TABLE t with the items in parentheses
CreateTableText(items) ==
    Spaced(<<"CREATE", "TABLE", "t", "(">>
           \o display_separated([k \in 1..Len(items) |-> items[k]], <<",">>)
           \o <<")">>)

InitCreateTable ==
    /\ \E items \in SeqsUpTo(TableItems, MaxItems) \ {<<>>} :
          /\ tokens = CreateTableText(items)
          /\ hist = [family |-> "create_table", items |-> items]
    /\ dialect_type \in Dialects
    /\ index = 0
    /\ pc = "parse"
    /\ stmts = <<>>
    /\ expecting_statement_delimiter = FALSE
    /\ ret = None

\* Parser::parse_sql on the CREATE TABLE text
ParseCreateTable ==
    /\ pc = "parse"
    /\ \E r \in {Call("parse_sql", <<tokens>>)} :
          /\ ret' = r
          /\ pc' = IF r[1] = "Ok" THEN "ok" ELSE IF r[1] = "Err" THEN "err" ELSE r[1]
    /\ UNCHANGED <<tokens, dialect_type, index, stmts, expecting_statement_delimiter, hist>>

NextCreateTable == ParseCreateTable

SpecCreateTable == InitCreateTable /\ [][NextCreateTable]_vars

\* the words that start an item of the index list under MySql
IndexFamily == {"KEY", "INDEX", "PRIMARY", "UNIQUE", "FOREIGN", "FULLTEXT", "CONSTRAINT"}

\* the fields columns, index and constraints of the CreateTable statement
CreatedColumns == ret[2][1][3]
CreatedIndex == ret[2][1][4]
CreatedConstraints == ret[2][1][5]

\* the words that start a table constraint under the other dialects
ConstraintFamily == {"CONSTRAINT", "PRIMARY", "UNIQUE", "FOREIGN", "CHECK"}

\* the items of the text whose first word is in a family, and the others, in
\* the order of the text
ItemsIn(family) == SelectSeq(hist.items, LAMBDA it : it[1] \in family)
ItemsNotIn(family) == SelectSeq(hist.items, LAMBDA it : it[1] \notin family)

\* the first word of the item an IndexInfo was parsed from
IndexWord(info) ==
    IF info[2] # None THEN "CONSTRAINT"
    ELSE IF info[3] # None THEN "FULLTEXT"
    ELSE CASE info[4][1] = "PrimaryKey" -> "PRIMARY"
           [] info[4][1] = "Unique" -> "UNIQUE"
           [] info[4][1] = "ForeignKey" -> "FOREIGN"
           [] OTHER -> info[4][2][2][2]

\* the first word of the item a TableConstraint was parsed from
ConstraintWord(c) ==
    IF c[2] # None THEN "CONSTRAINT"
    ELSE CASE c[1] = "Unique" -> IF c[4] THEN "PRIMARY" ELSE "UNIQUE"
           [] c[1] = "ForeignKey" -> "FOREIGN"
           [] OTHER -> "CHECK"

FirstWords(items) == [k \in 1..Len(items) |-> items[k][1]]
ColumnNames(columns) == [k \in 1..Len(columns) |-> columns[k][2]]

\* under MySql: no constraints, the index-family items in index, the columns in order
MySqlLists ==
    /\ CreatedConstraints = <<>>
    /\ [k \in 1..Len(CreatedIndex) |-> IndexWord(CreatedIndex[k])] = FirstWords(ItemsIn(IndexFamily))
    /\ ColumnNames(CreatedColumns) = FirstWords(ItemsNotIn(IndexFamily))

\* under another dialect: no index, the constraints in constraints, the columns in order
OtherLists ==
    /\ CreatedIndex = <<>>
    /\ [k \in 1..Len(CreatedConstraints) |-> ConstraintWord(CreatedConstraints[k])]
          = FirstWords(ItemsIn(ConstraintFamily))
    /\ ColumnNames(CreatedColumns) = FirstWords(ItemsNotIn(ConstraintFamily))

\* C19: a CREATE TABLE that parses under MySql has an empty constraints list,
\* its KEY, INDEX, PRIMARY, UNIQUE, FOREIGN, FULLTEXT and CONSTRAINT items in
\* index and its columns in source order; under another dialect it has an
\* empty index list, its table constraints in constraints and its columns in
\* source order
C19_CreateTableLists ==
    (hist.family = "create_table" /\ pc = "ok")
    => IF dialect_type = "MySql" THEN MySqlLists ELSE OtherLists

\* a MySql table with an index definition between two columns
C19_Witness ==
    /\ hist.family = "create_table"
    /\ pc = "ok"
    /\ dialect_type = "MySql"
    /\ Len(hist.items) = 3
    /\ hist.items[1][1] = "b"
    /\ hist.items[2][1] \in IndexFamily
    /\ hist.items[3][1] = "a"
    /\ Len(CreatedIndex) = 1
    /\ Len(CreatedColumns) = 2

\* the same under the other dialect, with a table constraint
CreateTableOtherDialect ==
    /\ hist.family = "create_table"
    /\ pc = "ok"
    /\ dialect_type # "MySql"
    /\ Len(CreatedConstraints) = 2
    /\ Len(CreatedColumns) = 1

-----------------------------------------------------------------------------
(* INSERT: the optional INTO and ON DUPLICATE KEY UPDATE                    *)

MaxAssignments == 2

\* the table with its optional columns, and the source query
InsertTargets == { <<"t">>, <<"t", "(", "a", ")">> }
InsertSources == { <<"VALUES", "(", "1", ")">>, <<"SELECT", "a", "FROM", "u">> }

OnDuplicateWords == <<"ON", "DUPLICATE", "KEY", "UPDATE">>

\* the sequences of distinct words of ON DUPLICATE KEY UPDATE, in every order
OnDuplicatePhrases ==
    { s \in SeqsUpTo({OnDuplicateWords[k] : k \in 1..Len(OnDuplicateWords)}, Len(OnDuplicateWords)) :
        \A j, k \in 1..Len(s) : j # k => s[j] # s[k] }

AssignmentItems == { <<"a", "=", "1">>, <<"b", "=", "2">> }

\* the text of an INSERT INTO: target, source, the words behind the source
\* and the assignments
InsertText(target, source, phrase, assignments) ==
    Spaced(<<"INSERT", "INTO">> \o target \o source \o phrase
           \o display_separated([k \in 1..Len(assignments) |-> assignments[k]], <<",">>))

\* hist.target_end is the cursor behind the table and its columns
InitInsert ==
    /\ \E target \in InsertTargets, source \in InsertSources, phrase \in OnDuplicatePhrases,
          assignments \in SeqsUpTo(AssignmentItems, MaxAssignments) :
          /\ tokens = InsertText(target, source, phrase, assignments)
          /\ hist = [family |-> "insert", phrase |-> phrase, assignments |-> assignments,
                     target_end |-> Len(Spaced(<<"INSERT", "INTO">> \o target)),
                     before |-> 0, first |-> None]
    /\ dialect_type \in Dialects
    /\ index = 0
    /\ pc = "parse"
    /\ stmts = <<>>
    /\ expecting_statement_delimiter = FALSE
    /\ ret = None

\* Parser::parse_insert up to its source: the cursor is where parse_query
\* leaves it, and hist.before keeps it
ParseInsertSource ==
    /\ pc = "parse"
    /\ \E q \in {Call("parse_query", <<tokens, hist.target_end>>)} :
          /\ q.st = "ok"
          /\ index' = q.i
          /\ hist' = [hist EXCEPT !.before = q.i]
    /\ pc' = "source_parsed"
    /\ UNCHANGED <<tokens, dialect_type, stmts, expecting_statement_delimiter, ret>>

\* Parser::parse_on_duplicate_key_update at the cursor behind the source
ParseOnDuplicateKeyUpdate ==
    /\ pc = "source_parsed"
    /\ \E r \in {Call("parse_on_duplicate_key_update", <<tokens, index>>)} :
          /\ index' = r.i
          /\ ret' = <<r.st, r.v>>
    /\ pc' = "update_parsed"
    /\ UNCHANGED <<tokens, dialect_type, stmts, expecting_statement_delimiter, hist>>

\* Parser::parse_sql on the text with INTO
ParseInsert ==
    /\ pc = "parse"
    /\ \E r \in {Call("parse_sql", <<tokens>>)} :
          /\ ret' = r
          /\ hist' = [hist EXCEPT !.first = r]
    /\ pc' = "parsed"
    /\ UNCHANGED <<tokens, dialect_type, index, stmts, expecting_statement_delimiter>>

\* the text is edited: the word INTO and the space behind it are taken out
RemoveInto ==
    /\ pc = "parsed"
    /\ tokens' = SubSeq(tokens, 1, 2) \o SubSeq(tokens, 5, Len(tokens))
    /\ pc' = "edited"
    /\ UNCHANGED <<dialect_type, index, stmts, expecting_statement_delimiter, ret, hist>>

\* Parser::parse_sql on the text without INTO
ParseInsertAgain ==
    /\ pc = "edited"
    /\ \E r \in {Call("parse_sql", <<tokens>>)} : ret' = r
    /\ pc' = "reparsed"
    /\ UNCHANGED <<tokens, dialect_type, index, stmts, expecting_statement_delimiter, hist>>

NextInsert ==
    ParseInsertSource \/ ParseOnDuplicateKeyUpdate \/ ParseInsert \/ RemoveInto \/ ParseInsertAgain

SpecInsert == InitInsert /\ [][NextInsert]_vars

\* the words in front of the cursor that parse_insert had behind the source
WordsBehindSource == NonWhitespaceFrom(tokens, hist.before)

\* the k-th of these words is w
WordBehindSource(k, w) == Len(WordsBehindSource) >= k /\ WordsBehindSource[k] = w

\* the words ON DUPLICATE KEY UPDATE are behind the source, in that order
AllFourBehindSource == \A k \in 1..Len(OnDuplicateWords) : WordBehindSource(k, OnDuplicateWords[k])

\* the Assignment that an item `id = number` of the text stands for
AssignmentOf(item) == <<"Assignment", item[1], <<"Value", <<"Number", item[3]>>>>>>

\* the field `update` of the Insert statement that was returned
InsertUpdate == ret[2][1][7]

\* parse_on_duplicate_key_update, called behind the source
OnDuplicateStep ==
    pc = "update_parsed" =>
        /\ ~WordBehindSource(1, "ON") => ret = <<"ok", FALSE>> /\ index = hist.before
        /\ (WordBehindSource(1, "ON") /\ ~AllFourBehindSource)
              => ret[1] = "err" /\ ret[2][1] = "Expected"
        /\ AllFourBehindSource
              => ret = <<"ok", TRUE>> /\ index = PastNth(tokens, hist.before, Len(OnDuplicateWords))

\* the Insert of a text: update is None, or the assignments of the text in order
InsertOfText ==
    (hist.family = "insert" /\ pc = "parsed") =>
        /\ ret[1] = "Ok" =>
              \/ InsertUpdate = None
              \/ /\ hist.assignments # <<>>
                 /\ InsertUpdate = Some([k \in 1..Len(hist.assignments) |-> AssignmentOf(hist.assignments[k])])
        /\ hist.phrase = <<>> /\ hist.assignments = <<>> => ret[1] = "Ok" /\ InsertUpdate = None
        /\ hist.phrase = OnDuplicateWords =>
              IF hist.assignments = <<>> THEN ret[1] = "Err"
              ELSE ret[1] = "Ok" /\ InsertUpdate # None

\* the text without INTO has the result of the text with INTO
InsertWithoutInto == (hist.family = "insert" /\ pc = "reparsed") => ret = hist.first

OnDuplicateAbsent == pc = "update_parsed" /\ ~WordBehindSource(1, "ON") /\ WordsBehindSource # <<>>
OnDuplicateCutShort == pc = "update_parsed" /\ WordBehindSource(1, "ON") /\ WordBehindSource(2, "DUPLICATE") /\ ~AllFourBehindSource
OnDuplicatePresent == pc = "update_parsed" /\ AllFourBehindSource

-----------------------------------------------------------------------------
(* USE and UNLOCK TABLES: the statements that end at EOF                    *)

MaxTailLen == 2

\* the statements up to the place where EOF is asked for, and UNLOCK alone
EofHeads == { <<"USE", "db">>, <<"UNLOCK", "TABLES">>, <<"UNLOCK">> }

\* what is written behind them: whitespace, a comment, a semicolon, a word
TailItems == { <<"WS">>, <<"NL">>, <<"BC">>, <<";">>, <<"WS", "x">>, <<"WS", "TABLES">>, <<",">> }

EofText(head, tail) ==
    Spaced(head) \o display_separated([k \in 1..Len(tail) |-> tail[k]], <<>>)

InitEof ==
    /\ \E head \in EofHeads, tail \in SeqsUpTo(TailItems, MaxTailLen) :
          /\ tokens = EofText(head, tail)
          /\ hist = [family |-> "eof", head |-> head,
                     tail |-> display_separated([k \in 1..Len(tail) |-> tail[k]], <<>>)]
    /\ dialect_type \in Dialects
    /\ index = 0
    /\ pc = "parse"
    /\ stmts = <<>>
    /\ expecting_statement_delimiter = FALSE
    /\ ret = None

\* Parser::parse_sql on the token vector
ParseText ==
    /\ pc = "parse"
    /\ \E r \in {Call("parse_sql", <<tokens>>)} :
          /\ ret' = r
          /\ pc' = IF r[1] = "Ok" THEN "ok" ELSE IF r[1] = "Err" THEN "err" ELSE r[1]
    /\ UNCHANGED <<tokens, dialect_type, index, stmts, expecting_statement_delimiter, hist>>

NextEof == ParseText

SpecEof == InitEof /\ [][NextEof]_vars

\* the tokens of the text that are not whitespace
TextWords == SelectSeq(tokens, LAMBDA t : ~IsWhitespace(t))

\* C21: USE db and UNLOCK TABLES are parsed only when no token follows them
\* before EOF; with any token behind them, a semicolon included, and for UNLOCK
\* without TABLES, parse_sql returns a ParserError
C21_EofTerminated ==
    (hist.family = "eof" /\ pc # "parse") =>
        CASE TextWords = <<"USE", "db">> -> ret = <<"Ok", <<<<"ChangeDatabase", "db">>>>>>
          [] TextWords = <<"UNLOCK", "TABLES">> -> ret = <<"Ok", <<<<"UNLock", TRUE>>>>>>
          [] OTHER -> ret[1] = "Err"

\* USE db; is an error
C21_Witness ==
    /\ hist.family = "eof"
    /\ pc = "err"
    /\ hist.head = <<"USE", "db">>
    /\ hist.tail = <<";">>
    /\ ret[1] = "Err"

\* UNLOCK TABLES with whitespace behind it is parsed
UnlockBeforeWhitespace ==
    /\ hist.family = "eof"
    /\ pc = "ok"
    /\ hist.head = <<"UNLOCK", "TABLES">>
    /\ hist.tail = <<"WS", "NL">>

-----------------------------------------------------------------------------
(* COLLATE behind an expression prefix                                      *)

\* the forms of a prefix: the tokens, the expression they spell, and whether
\* the form is read by the arm of a word or token (plain), by the arm of a
\* prefix operator (unary: the operand is a prefix of its own), or by the
\* speculative `TYPE 'literal'` parse (typed)
PrefixForms ==
    { [toks |-> <<"x">>, ast |-> <<"Identifier", "x">>, kind |-> "plain"],
      [toks |-> <<"1">>, ast |-> <<"Value", <<"Number", "1">>>>, kind |-> "plain"],
      [toks |-> <<"NULL">>, ast |-> <<"Value", <<"Null">>>>, kind |-> "plain"],
      [toks |-> <<"t", ".", "x">>, ast |-> <<"CompoundIdentifier", <<"t", "x">>>>, kind |-> "plain"],
      [toks |-> <<"f", "(", "x", ")">>,
       ast |-> <<"Function", <<"f">>, <<<<"Identifier", "x">>>>, None, FALSE>>, kind |-> "plain"],
      [toks |-> <<"(", "x", ")">>, ast |-> <<"Nested", <<"Identifier", "x">>>>, kind |-> "plain"],
      [toks |-> <<"-", "x">>, ast |-> <<"UnaryOp", "Minus", <<"Identifier", "x">>>>, kind |-> "unary"],
      [toks |-> <<"NOT", "x">>, ast |-> <<"UnaryOp", "Not", <<"Identifier", "x">>>>, kind |-> "unary"],
      [toks |-> <<"~", "x">>, ast |-> <<"BitwiseNested", <<"Identifier", "x">>>>, kind |-> "unary"],
      [toks |-> <<"DATE", "'s'">>, ast |-> <<"TypedString", <<"Date">>, "'s'">>, kind |-> "typed"] }

\* what follows the prefix: the collation, when there is one, is an ObjectName
PrefixFollowers ==
    { [toks |-> <<>>, collation |-> None],
      [toks |-> <<",", "y">>, collation |-> None],
      [toks |-> <<"COLLATE", "c">>, collation |-> Some(<<"c">>)],
      [toks |-> <<"COLLATE", "d", ".", "c">>, collation |-> Some(<<"d", "c">>)],
      [toks |-> <<"COLLATE", "c", ",", "y">>, collation |-> Some(<<"c">>)] }

\* the tokens of `d . c` are written without spaces
PrefixText(form, follower) ==
    LET words == Spaced(form.toks \o follower.toks)
    IN SelectSeq([k \in 1..Len(words) |->
                    IF words[k] = "WS" /\ k > 1 /\ k < Len(words)
                       /\ ("." \in {words[k - 1], words[k + 1]}) THEN "" ELSE words[k]],
                 LAMBDA t : t # "")

InitPrefix ==
    /\ \E form \in PrefixForms, follower \in PrefixFollowers :
          /\ tokens = PrefixText(form, follower)
          /\ hist = [family |-> "prefix", form |-> form, follower |-> follower]
    /\ dialect_type \in Dialects
    /\ index = 0
    /\ pc = "parse_prefix"
    /\ stmts = <<>>
    /\ expecting_statement_delimiter = FALSE
    /\ ret = None

\* Parser::parse_prefix at the start of the tokens
ParsePrefix ==
    /\ pc = "parse_prefix"
    /\ \E r \in {Call("parse_prefix", <<tokens, index>>)} :
          /\ index' = r.i
          /\ ret' = <<r.st, r.v>>
    /\ pc' = "prefix_parsed"
    /\ UNCHANGED <<tokens, dialect_type, stmts, expecting_statement_delimiter, hist>>

NextPrefix == ParsePrefix

SpecPrefix == InitPrefix /\ [][NextPrefix]_vars

\* the prefix of the text is followed by COLLATE name
CollateFollows == hist.follower.collation # None

\* the operand of a prefix operator, wrapped
CollateOperand(ast, name) ==
    IF ast[1] = "UnaryOp" THEN <<"UnaryOp", ast[2], <<"Collate", ast[3], name>>>>
    ELSE <<ast[1], <<"Collate", ast[2], name>>>>

\* the first token behind the cursor that is not whitespace is COLLATE
CollateUnconsumed ==
    LET rest == NonWhitespaceFrom(tokens, index) IN rest # <<>> /\ rest[1] = "COLLATE"

\* under MySql parse_prefix returns the prefix and leaves COLLATE
MySqlLeavesCollate ==
    (pc = "prefix_parsed" /\ dialect_type = "MySql") =>
        /\ ret = <<"ok", hist.form.ast>>
        /\ CollateFollows => CollateUnconsumed

TypedStringLeavesCollate ==
    /\ pc = "prefix_parsed"
    /\ dialect_type = "Generic"
    /\ hist.form.kind = "typed"
    /\ CollateFollows
    /\ ret = <<"ok", hist.form.ast>>

-----------------------------------------------------------------------------
(* NOT behind an expression                                                 *)

\* the expression in front of NOT
NotLefts ==
    { [toks |-> <<"x">>, ast |-> IdentX],
      [toks |-> <<"1">>, ast |-> <<"Value", <<"Number", "1">>>>],
      [toks |-> <<"x", "+", "1">>,
       ast |-> <<"BinaryOp", IdentX, "Plus", <<"Value", <<"Number", "1">>>>>>] }

\* what is written behind NOT, and the node it makes of the expression in
\* front: "InList", "InSubquery", "Between", "NotLike", "error" when the
\* operator is not completed, "stop" when NOT is no infix operator
NotFollowers ==
    { [toks |-> <<"IN", "(", "1", ")">>, node |-> "InList"],
      [toks |-> <<"IN", "(", "1", ",", "y", ")">>, node |-> "InList"],
      [toks |-> <<"IN", "(", "SELECT", "1", ")">>, node |-> "InSubquery"],
      [toks |-> <<"BETWEEN", "1", "AND", "2">>, node |-> "Between"],
      [toks |-> <<"LIKE", "'s'">>, node |-> "NotLike"],
      [toks |-> <<"IN">>, node |-> "error"],
      [toks |-> <<"IN", "y">>, node |-> "error"],
      [toks |-> <<"BETWEEN", "1">>, node |-> "error"],
      [toks |-> <<"LIKE">>, node |-> "error"],
      [toks |-> <<>>, node |-> "stop"],
      [toks |-> <<"NULL">>, node |-> "stop"],
      [toks |-> <<"y">>, node |-> "stop"],
      [toks |-> <<"=", "1">>, node |-> "stop"],
      [toks |-> <<"(", "1", ")">>, node |-> "stop"],
      [toks |-> <<"NOT", "IN", "(", "1", ")">>, node |-> "stop"],
      [toks |-> <<"EXISTS", "IN", "(", "1", ")">>, node |-> "stop"] }

\* the whitespace between NOT and what follows it
NotGaps == { <<"WS">>, <<"NL", "BC", "WS">> }

\* hist.left_end is the cursor behind the expression in front of NOT
InitNot ==
    /\ \E left \in NotLefts, follower \in NotFollowers, gap \in NotGaps :
          /\ tokens = Spaced(left.toks) \o <<"WS", "NOT">>
                      \o (IF follower.toks = <<>> THEN <<>> ELSE gap \o Spaced(follower.toks))
          /\ hist = [family |-> "not", left |-> left, follower |-> follower,
                     left_end |-> Len(Spaced(left.toks))]
    /\ dialect_type \in Dialects
    /\ index = 0
    /\ pc = "parse_expr"
    /\ stmts = <<>>
    /\ expecting_statement_delimiter = FALSE
    /\ ret = None

SpecNot == InitNot /\ [][NextExpr]_vars

\* the token behind NOT that is not whitespace, found without the cursor operations
BehindNot ==
    LET rest == NonWhitespaceFrom(tokens, hist.left_end)
    IN IF Len(rest) >= 2 THEN rest[2] ELSE EOF

\* the node that was returned is the one of the follower, over the left expression
NotNode ==
    CASE hist.follower.node = "InList" ->
            ret[1] = "ok" /\ ret[2][1] = "InList" /\ ret[2][2] = hist.left.ast /\ ret[2][4] = TRUE
      [] hist.follower.node = "InSubquery" ->
            ret[1] = "ok" /\ ret[2][1] = "InSubquery" /\ ret[2][2] = hist.left.ast /\ ret[2][4] = TRUE
      [] hist.follower.node = "Between" ->
            ret[1] = "ok" /\ ret[2][1] = "Between" /\ ret[2][2] = hist.left.ast /\ ret[2][3] = TRUE
      [] hist.follower.node = "NotLike" ->
            ret[1] = "ok" /\ ret[2][1] = "BinaryOp" /\ ret[2][2] = hist.left.ast /\ ret[2][3] = "NotLike"
      [] hist.follower.node = "error" -> ret[1] = "err"
      [] hist.follower.node = "stop" -> ret = <<"ok", hist.left.ast>> /\ index = hist.left_end

\* C23: behind an expression, NOT has precedence 20 exactly when the next
\* token behind it that is not whitespace is IN, BETWEEN or LIKE, and then it
\* makes InList, InSubquery or Between with negated = true, or
\* BinaryOp(NotLike); otherwise its precedence is 0, parse_expr returns the
\* expression and the cursor stays in front of NOT
C23_NotLooksAhead ==
    (hist.family = "not" /\ pc = "done") =>
        /\ get_next_precedence(tokens, hist.left_end)
              = (IF BehindNot \in {"IN", "BETWEEN", "LIKE"} THEN BETWEEN_PREC ELSE 0)
        /\ (BehindNot \in {"IN", "BETWEEN", "LIKE"}) <=> (hist.follower.node # "stop")
        /\ NotNode

\* x NOT y: the expression is x and NOT is the next token
C23_Witness ==
    /\ hist.family = "not"
    /\ pc = "done"
    /\ hist.follower.toks = <<"y">>
    /\ ret = <<"ok", hist.left.ast>>
    /\ peek_token(tokens, index) = "NOT"

\* x NOT IN (SELECT 1) behind a comment
NotInSubqueryBehindComment ==
    /\ hist.family = "not"
    /\ pc = "done"
    /\ HasToken(tokens, "BC")
    /\ ret[1] = "ok"
    /\ ret[2][1] = "InSubquery"

-----------------------------------------------------------------------------
(* IN: a list or a subquery                                                 *)

\* what is written between the parentheses of IN: the number of expressions
\* of a list (0 for a query), and whether it is complete
InInners ==
    { [toks |-> <<"1">>, items |-> 1, complete |-> TRUE],
      [toks |-> <<"1", ",", "y">>, items |-> 2, complete |-> TRUE],
      [toks |-> <<"y", "+", "1", ",", "'s'", ",", "2">>, items |-> 3, complete |-> TRUE],
      [toks |-> <<"(", "SELECT", "1", ")">>, items |-> 1, complete |-> TRUE],
      [toks |-> <<"(", "1", ")", ",", "2">>, items |-> 2, complete |-> TRUE],
      [toks |-> <<"SELECT", "1">>, items |-> 0, complete |-> TRUE],
      [toks |-> <<"SELECT", "a", "FROM", "t">>, items |-> 0, complete |-> TRUE],
      [toks |-> <<"WITH", "c", "AS", "(", "SELECT", "1", ")", "SELECT", "2">>,
       items |-> 0, complete |-> TRUE],
      [toks |-> <<>>, items |-> 0, complete |-> FALSE],
      [toks |-> <<"1", ",">>, items |-> 1, complete |-> FALSE],
      [toks |-> <<"SELECT">>, items |-> 0, complete |-> FALSE],
      [toks |-> <<"WITH", "c">>, items |-> 0, complete |-> FALSE] }

\* x [NOT] IN ( inner ), with or without the closing parenthesis
InitIn ==
    /\ \E inner \in InInners, negated \in BOOLEAN, closed \in BOOLEAN :
          /\ tokens = Spaced(<<"x">> \o (IF negated THEN <<"NOT">> ELSE <<>>) \o <<"IN", "(">>
                             \o inner.toks \o (IF closed THEN <<")">> ELSE <<>>))
          /\ hist = [family |-> "in", inner |-> inner, negated |-> negated, closed |-> closed]
    /\ dialect_type \in Dialects
    /\ index = 0
    /\ pc = "parse_expr"
    /\ stmts = <<>>
    /\ expecting_statement_delimiter = FALSE
    /\ ret = None

SpecIn == InitIn /\ [][NextExpr]_vars

\* the first token between the parentheses, EOF when there is none
FirstInside == IF hist.inner.toks = <<>> THEN EOF ELSE hist.inner.toks[1]

\* C24: x [NOT] IN ( ... ) is InSubquery exactly when the first token in the
\* parentheses is SELECT or WITH, and otherwise InList with one element or
\* more; both need the closing parenthesis, and negated tells whether NOT was
\* written in front of IN
C24_InListOrSubquery ==
    (hist.family = "in" /\ pc = "done") =>
        /\ (hist.inner.complete /\ hist.closed) <=> ret[1] = "ok"
        /\ ~(hist.inner.complete /\ hist.closed) => ret[1] = "err"
        /\ ret[1] = "ok" =>
              /\ ret[2][2] = IdentX
              /\ ret[2][4] = hist.negated
              /\ index = Len(tokens)
              /\ IF FirstInside \in {"SELECT", "WITH"}
                 THEN ret[2][1] = "InSubquery" /\ ret[2][3][1] = "Query"
                 ELSE /\ ret[2][1] = "InList"
                      /\ Len(ret[2][3]) >= 1
                      /\ Len(ret[2][3]) = hist.inner.items

\* x NOT IN (WITH c AS (SELECT 1) SELECT 2) is a negated InSubquery
C24_Witness ==
    /\ hist.family = "in"
    /\ pc = "done"
    /\ FirstInside = "WITH"
    /\ ret[1] = "ok"
    /\ ret[2][1] = "InSubquery"
    /\ ret[2][4] = TRUE
    /\ Len(ret[2][3][2]) = 1

\* x IN ((SELECT 1)) is a list of one subquery expression
InListOfSubquery ==
    /\ hist.family = "in"
    /\ pc = "done"
    /\ hist.inner.toks = <<"(", "SELECT", "1", ")">>
    /\ ret[1] = "ok"
    /\ ret[2][1] = "InList"
    /\ ret[2][3][1][1] = "Subquery"

-----------------------------------------------------------------------------
(* WITH behind a table name                                                 *)

\* the table, with an alias or FORCE INDEX
TableHeads ==
    { <<"t">>, <<"d", ".", "t">>, <<"t", "a">>, <<"t", "AS", "a">>,
      <<"t", "FORCE", "INDEX", "(", "k", ")">>, <<"t", "a", "FORCE", "INDEX", "(", "k", ")">> }

\* what is written behind it: the hints of a complete list, or "error" for a
\* list that is cut short, or "none" when no hint list is written
TableTails ==
    { [toks |-> <<>>, hints |-> "none"],
      [toks |-> <<"WHERE", "x">>, hints |-> "none"],
      [toks |-> <<"WITH">>, hints |-> "none"],
      [toks |-> <<"WITH", "c", "AS", "(", "SELECT", "1", ")", "SELECT", "2">>, hints |-> "none"],
      [toks |-> <<"WITH", "NOLOCK">>, hints |-> "none"],
      [toks |-> <<"WITH", "(", "NOLOCK", ")">>, hints |-> <<<<"Identifier", "NOLOCK">>>>],
      [toks |-> <<"WITH", "(", "NOLOCK", ",", "x", ")", "WHERE", "x">>,
       hints |-> <<<<"Identifier", "NOLOCK">>, <<"Identifier", "x">>>>],
      [toks |-> <<"WITH", "(", "NOLOCK">>, hints |-> "error"],
      [toks |-> <<"WITH", "(", "NOLOCK", "WHERE", "x">>, hints |-> "error"],
      [toks |-> <<"WITH", "(", ")">>, hints |-> "error"],
      [toks |-> <<"WITH", "(">>, hints |-> "error"] }

\* the parts of a name are written without spaces around the period
TableText(head, tail) == PrefixText([toks |-> head], tail)

InitTableFactor ==
    /\ \E head \in TableHeads, tail \in TableTails :
          /\ tokens = TableText(head, tail)
          /\ hist = [family |-> "table_factor", head |-> head, tail |-> tail]
    /\ dialect_type \in Dialects
    /\ index = 0
    /\ pc = "parse_table_factor"
    /\ stmts = <<>>
    /\ expecting_statement_delimiter = FALSE
    /\ ret = None

\* Parser::parse_table_factor at the start of the tokens
ParseTableFactor ==
    /\ pc = "parse_table_factor"
    /\ \E r \in {Call("parse_table_factor", <<tokens, index>>)} :
          /\ index' = r.i
          /\ ret' = <<r.st, r.v>>
    /\ pc' = "table_factor_parsed"
    /\ UNCHANGED <<tokens, dialect_type, stmts, expecting_statement_delimiter, hist>>

NextTableFactor == ParseTableFactor

SpecTableFactor == InitTableFactor /\ [][NextTableFactor]_vars

\* the tail of the text is WITH and a parenthesis
WithParenthesis ==
    Len(hist.tail.toks) >= 2 /\ hist.tail.toks[1] = "WITH" /\ hist.tail.toks[2] = "("

\* the tail of the text is WITH and no parenthesis
WithAlone == hist.tail.toks # <<>> /\ hist.tail.toks[1] = "WITH" /\ ~WithParenthesis

\* the next token at the cursor that is not whitespace
NextAtCursor ==
    LET rest == NonWhitespaceFrom(tokens, index) IN IF rest = <<>> THEN EOF ELSE rest[1]

\* the field with_hints of the TableFactor::Table that was returned
WithHints == ret[2][6]

\* C25: behind a table name with its alias and FORCE INDEX, WITH ( is a list
\* of hints that needs its closing parenthesis; a WITH without a parenthesis
\* is put back: parse_table_factor returns with no hints and WITH is the next
\* token at the cursor
C25_TableFactorWith ==
    pc = "table_factor_parsed" =>
        /\ WithParenthesis =>
              IF hist.tail.hints = "error" THEN ret[1] = "err"
              ELSE ret[1] = "ok" /\ ret[2][1] = "Table" /\ WithHints = hist.tail.hints
                   /\ NextAtCursor # "WITH"
        /\ WithAlone =>
              ret[1] = "ok" /\ ret[2][1] = "Table" /\ WithHints = <<>> /\ NextAtCursor = "WITH"
        /\ (~WithParenthesis /\ ~WithAlone) => ret[1] = "ok" /\ WithHints = <<>>

\* t a FORCE INDEX (k) WITH c AS ...: WITH is left for what follows
C25_Witness ==
    /\ pc = "table_factor_parsed"
    /\ hist.head = <<"t", "a", "FORCE", "INDEX", "(", "k", ")">>
    /\ Len(hist.tail.toks) > 2
    /\ WithAlone
    /\ ret[1] = "ok"
    /\ ret[2][3] = Some(<<"TableAlias", "a", <<>>>>)
    /\ ret[2][4] = Some("k")
    /\ WithHints = <<>>
    /\ NextAtCursor = "WITH"

\* a list of two hints
TwoHints == pc = "table_factor_parsed" /\ ret[1] = "ok" /\ Len(WithHints) = 2

-----------------------------------------------------------------------------
(* UNION, EXCEPT and INTERSECT in a query body                              *)

MaxSetOps == 3

SetOpWords == {"UNION", "EXCEPT", "INTERSECT"}

\* a set operator as it is written: the keyword, with or without ALL
SetOpItems == { <<w>> : w \in SetOpWords } \cup { <<w, "ALL">> : w \in SetOpWords }

\* the k-th operand as it is written
OperandText(k) == <<"SELECT", CASE k = 1 -> "1" [] k = 2 -> "2" [] k = 3 -> "3" [] OTHER -> "1.5">>

RECURSIVE SetOpText(_, _)
SetOpText(ops, k) ==
    IF k > Len(ops) THEN <<>>
    ELSE ops[k] \o OperandText(k + 1) \o SetOpText(ops, k + 1)

InitSetOps ==
    /\ \E ops \in SeqsUpTo(SetOpItems, MaxSetOps) :
          /\ ops # <<>>
          /\ tokens = Spaced(OperandText(1) \o SetOpText(ops, 1))
          /\ hist = [family |-> "setops", ops |-> ops]
    /\ dialect_type \in Dialects
    /\ index = 0
    /\ pc = "parse"
    /\ stmts = <<>>
    /\ expecting_statement_delimiter = FALSE
    /\ ret = None

SpecSetOps == InitSetOps /\ [][ParseText]_vars

\* the k-th operand as a SetExpr
Operand(k) ==
    <<"Select", <<"Select", None, FALSE, None,
        << <<"UnnamedExpr", <<"Value", <<"Number", OperandText(k)[2]>>>>>> >>,
        <<>>, None, <<>>, None>>>>

SetOperatorOf(item) ==
    CASE item[1] = "UNION" -> "Union" [] item[1] = "EXCEPT" -> "Except" [] OTHER -> "Intersect"

SetOperation(left, item, right) ==
    <<"SetOperation", left, SetOperatorOf(item), Len(item) = 2, right>>

\* the operand behind operator k joined with the INTERSECTs that follow it
RECURSIVE IntersectRun(_, _, _)
IntersectRun(ops, k, left) ==
    IF k <= Len(ops) /\ ops[k][1] = "INTERSECT"
    THEN IntersectRun(ops, k + 1, SetOperation(left, ops[k], Operand(k + 1)))
    ELSE [tree |-> left, k |-> k]

\* the tree of the text: runs of INTERSECT first, then UNION and EXCEPT from
\* left to right
RECURSIVE JoinRuns(_, _, _)
JoinRuns(ops, k, left) ==
    IF k > Len(ops) THEN left
    ELSE LET run == IntersectRun(ops, k + 1, Operand(k + 1))
         IN JoinRuns(ops, run.k, SetOperation(left, ops[k], run.tree))

ExpectedBody(ops) ==
    LET first == IntersectRun(ops, 1, Operand(1))
    IN JoinRuns(ops, first.k, first.tree)

\* the body of the parsed query
QueryBody == ret[2][1][2][3]

\* C26: INTERSECT binds tighter than UNION and EXCEPT, operators of equal
\* precedence associate to the left, and ALL belongs to the operator directly
\* before it
C26_SetOperatorPrecedence ==
    (hist.family = "setops" /\ pc # "parse") =>
        /\ pc = "ok"
        /\ Len(ret[2]) = 1
        /\ QueryBody = ExpectedBody(hist.ops)
        /\ hist.ops = << <<"UNION">>, <<"INTERSECT">> >> =>
              QueryBody = <<"SetOperation", Operand(1), "Union", FALSE,
                              <<"SetOperation", Operand(2), "Intersect", FALSE, Operand(3)>>>>
        /\ hist.ops = << <<"INTERSECT">>, <<"UNION">> >> =>
              QueryBody = <<"SetOperation",
                              <<"SetOperation", Operand(1), "Intersect", FALSE, Operand(2)>>,
                              "Union", FALSE, Operand(3)>>
        /\ hist.ops = << <<"UNION">>, <<"EXCEPT">> >> =>
              QueryBody = <<"SetOperation",
                              <<"SetOperation", Operand(1), "Union", FALSE, Operand(2)>>,
                              "Except", FALSE, Operand(3)>>

\* A UNION ALL B INTERSECT C: ALL stays with UNION, INTERSECT is inside
C26_Witness ==
    /\ hist.family = "setops"
    /\ pc = "ok"
    /\ hist.ops = << <<"UNION", "ALL">>, <<"INTERSECT">> >>
    /\ QueryBody = <<"SetOperation", Operand(1), "Union", TRUE,
                       <<"SetOperation", Operand(2), "Intersect", FALSE, Operand(3)>>>>

\* A EXCEPT B UNION C is grouped from the left
ExceptThenUnion ==
    /\ hist.family = "setops"
    /\ pc = "ok"
    /\ hist.ops = << <<"EXCEPT">>, <<"UNION">> >>
    /\ QueryBody[2][1] = "SetOperation"
    /\ QueryBody[5] = Operand(3)

-----------------------------------------------------------------------------
(* Prefix NOT, + and -                                                      *)

UnaryPrefixes == {"NOT", "-", "+"}

\* the infix operators behind the operand: one or two binary operators, or IS NULL
UnaryChains ==
    { <<a>> : a \in InfixOps } \cup { <<a, b>> : a \in InfixOps, b \in InfixOps }
    \cup { << [toks |-> <<"IS", "NULL">>, op |-> "IsNull"] >> }

\* `prefix x a y` and `prefix x a y b z`
UnaryText(prefix, chain) ==
    <<prefix, "x">> \o chain[1].toks
    \o (IF chain[1].op = "IsNull" THEN <<>> ELSE <<"y">>)
    \o (IF Len(chain) = 2 THEN chain[2].toks \o <<"z">> ELSE <<>>)

InitUnary ==
    /\ \E prefix \in UnaryPrefixes, chain \in UnaryChains :
          /\ tokens = Spaced(UnaryText(prefix, chain))
          /\ hist = [family |-> "unary", prefix |-> prefix, chain |-> chain]
    /\ dialect_type \in Dialects
    /\ index = 0
    /\ pc = "parse_expr"
    /\ stmts = <<>>
    /\ expecting_statement_delimiter = FALSE
    /\ ret = None

SpecUnary == InitUnary /\ [][NextExpr]_vars

\* the precedence the operand of the prefix is parsed with
PrefixPrecedence(prefix) == IF prefix = "NOT" THEN 15 ELSE 30

ChainPrecedence(a) == IF a.op = "IsNull" THEN 17 ELSE TablePrecedence(a.op)

UnaryOp(prefix, e) ==
    <<"UnaryOp", CASE prefix = "NOT" -> "Not" [] prefix = "-" -> "Minus" [] OTHER -> "Plus", e>>

Infix(left, a, right) ==
    IF a.op = "IsNull" THEN <<"IsNull", left>> ELSE <<"BinaryOp", left, a.op, right>>

\* `left a y b z` without a prefix
InfixPair(left, a, b) ==
    IF ChainPrecedence(b) > ChainPrecedence(a)
    THEN Infix(left, a, Infix(IdentY, b, IdentZ))
    ELSE Infix(Infix(left, a, IdentY), b, IdentZ)

\* the tree of the text: the operand takes the operators behind it for as long
\* as their precedence is above the one of the prefix
ExpectedUnary(prefix, chain) ==
    LET m == PrefixPrecedence(prefix)
        a == chain[1]
    IN IF Len(chain) = 1
       THEN IF ChainPrecedence(a) > m
            THEN UnaryOp(prefix, Infix(IdentX, a, IdentY))
            ELSE Infix(UnaryOp(prefix, IdentX), a, IdentY)
       ELSE LET b == chain[2]
            IN IF ChainPrecedence(a) <= m
               THEN InfixPair(UnaryOp(prefix, IdentX), a, b)
               ELSE IF ChainPrecedence(b) <= m
               THEN Infix(UnaryOp(prefix, Infix(IdentX, a, IdentY)), b, IdentZ)
               ELSE UnaryOp(prefix, InfixPair(IdentX, a, b))

MinusBeforeSum ==
    /\ hist.family = "unary"
    /\ pc = "done"
    /\ tokens = Spaced(<<"-", "x", "+", "y", "*", "z">>)
    /\ ret[2] = <<"BinaryOp", <<"UnaryOp", "Minus", IdentX>>, "Plus",
                    <<"BinaryOp", IdentY, "Multiply", IdentZ>>>>

\* - x IS NULL tests the signed operand, NOT x IS NULL negates the test
SignedIsNull ==
    /\ hist.family = "unary"
    /\ pc = "done"
    /\ hist.prefix = "-"
    /\ ret[2] = <<"IsNull", <<"UnaryOp", "Minus", IdentX>>>>

-----------------------------------------------------------------------------
(* get_next_precedence and parse_infix                                      *)

MaxInfixTail == 2

\* the tokens get_next_precedence names
PrecedenceTokens ==
    {"OR", "AND", "NOT", "IS", "IN", "BETWEEN", "LIKE", "=", "<", "<=", "<>", ">", ">=",
     "|", "^", "&", "+", "-", "*", "/", "%", "||", "~", "<<", ">>", "::"}

\* tokens it does not name
OtherTokens == {"x", "1", ",", "(", ")", ";", "SELECT"}

\* what is written between the left operand and the token
InfixGaps == { <<>>, <<"WS">>, <<"BC", "NL">> }

\* what is written behind the token
InfixTailAlphabet == {"IN", "LIKE", "NOT", "NULL", "x", "WS"}

InitInfix ==
    /\ \E t \in PrecedenceTokens \cup OtherTokens, gap \in InfixGaps,
          tail \in SeqsUpTo(InfixTailAlphabet, MaxInfixTail) :
          /\ tokens = <<"x">> \o gap \o <<t>> \o tail
          /\ hist = [family |-> "infix", token |-> t, tail |-> tail]
    /\ dialect_type \in Dialects
    /\ index = 1
    /\ pc = "get_next_precedence"
    /\ stmts = <<>>
    /\ expecting_statement_delimiter = FALSE
    /\ ret = None

\* parse_subexpr: the body of its loop with x as the expression so far
ParseInfix ==
    /\ pc = "get_next_precedence"
    /\ \E next_precedence \in {Call("get_next_precedence", <<tokens, index>>)} :
          /\ next_precedence > 0
          /\ \E r \in {Call("parse_infix", <<tokens, index, IdentX, next_precedence>>)} :
                /\ index' = r.i
                /\ ret' = <<r.st, r.v>>
    /\ pc' = "parse_infix"
    /\ UNCHANGED <<tokens, dialect_type, stmts, expecting_statement_delimiter, hist>>

\* parse_subexpr(0) from the start of the tokens
ParseSubexpr ==
    /\ pc = "get_next_precedence"
    /\ \E r \in {Call("parse_subexpr", <<tokens, 0, 0>>)} :
          /\ index' = r.i
          /\ ret' = <<r.st, r.v>>
    /\ pc' = "parse_subexpr"
    /\ UNCHANGED <<tokens, dialect_type, stmts, expecting_statement_delimiter, hist>>

NextInfix == ParseInfix \/ ParseSubexpr

SpecInfix == InitInfix /\ [][NextInfix]_vars

NoInfixParser == <<"panic", <<"panic", "No infix parser for token">>>>

\* the first token behind the operator token that is not whitespace
BehindInfixToken ==
    LET rest == SelectSeq(hist.tail, LAMBDA t : ~IsWhitespace(t))
    IN IF rest = <<>> THEN EOF ELSE rest[1]

\* the expressions the handler of a token builds
HandlerNodes(t) ==
    CASE t = "IS" -> {"IsNull", "IsNotNull"}
      [] t \in {"IN", "BETWEEN"} -> {"InList", "InSubquery", "Between"}
      [] t = "NOT" -> IF BehindInfixToken = "LIKE" THEN {"BinaryOp"}
                      ELSE {"InList", "InSubquery", "Between"}
      [] t = "::" -> {"Cast"}
      [] OTHER -> {"BinaryOp"}

\* C28: wherever get_next_precedence returns more than 0, parse_infix finds
\* the handler of the token, and parse_subexpr does not reach either
\* `No infix parser for token` panic
C28_InfixInSync ==
    (hist.family = "infix" /\ pc # "get_next_precedence") =>
        /\ ret # NoInfixParser
        /\ pc = "parse_infix" =>
              /\ hist.token \in PrecedenceTokens
              /\ ret[1] \in {"ok", "err"}
              /\ ret[1] = "ok" => /\ ret[2][1] \in HandlerNodes(hist.token)
                                  /\ ret[2][2] = IdentX

\* x :: x is given to parse_pg_cast
C28_Witness ==
    /\ hist.family = "infix"
    /\ pc = "parse_infix"
    /\ hist.token = "::"
    /\ ret[1] = "ok"
    /\ ret[2][1] = "Cast"

\* x NOT x: NOT has precedence 0 here and parse_subexpr returns x
NotWithoutHandlerIsLeft ==
    /\ hist.family = "infix"
    /\ pc = "parse_subexpr"
    /\ hist.token = "NOT"
    /\ BehindInfixToken = "x"
    /\ ret = <<"ok", IdentX>>
    /\ get_next_precedence(tokens, index) = 0

\* x NOT IN without a list: the handler is found and reports the error
NotInCutShort ==
    /\ hist.family = "infix"
    /\ pc = "parse_infix"
    /\ hist.token = "NOT"
    /\ hist.tail = <<"WS", "IN">>
    /\ ret[1] = "err"

-----------------------------------------------------------------------------
(* REPLACE                                                                  *)

\* what is written between REPLACE and the table, without INTO
ReplaceModifiers ==
    { <<>>, <<"LOW_PRIORITY">>, <<"HIGH_PRIORITY">>, <<"DELAYED">>, <<"IGNORE">>,
      <<"LOW_PRIORITY", "IGNORE">> }

\* what is written behind the source
ReplaceTails ==
    { <<>>, <<";">>, OnDuplicateWords \o <<"a", "=", "1">>, <<"ON", "DUPLICATE">>, <<")">> }

\* the statement from its table on, and statements cut short
ReplaceBodies ==
    { target \o source \o tail :
        target \in InsertTargets, source \in InsertSources, tail \in ReplaceTails }
    \cup { <<>>, <<"t">>, <<"t", "(", "a">> }

InitReplace ==
    /\ \E modifiers \in ReplaceModifiers, into \in {<<>>, <<"INTO">>}, body \in ReplaceBodies :
          /\ tokens = Spaced(<<"REPLACE">> \o modifiers \o into \o body)
          /\ hist = [family |-> "replace", modifiers |-> modifiers, first |-> None]
    /\ dialect_type \in Dialects
    /\ index = 0
    /\ pc = "parse"
    /\ stmts = <<>>
    /\ expecting_statement_delimiter = FALSE
    /\ ret = None

\* the text is edited: INSERT is written in the place of REPLACE
WriteInsert ==
    /\ pc = "parsed"
    /\ tokens[1] = "REPLACE"
    /\ tokens' = <<"INSERT">> \o Tail(tokens)
    /\ pc' = "edited"
    /\ UNCHANGED <<dialect_type, index, stmts, expecting_statement_delimiter, ret, hist>>

NextReplace == ParseInsert \/ WriteInsert \/ ParseInsertAgain

SpecReplace == InitReplace /\ [][NextReplace]_vars

\* priority and ignore as the modifiers of the text spell them
ModifierPriority ==
    IF hist.modifiers # <<>> /\ hist.modifiers[1] # "IGNORE"
    THEN Some(hist.modifiers[1]) ELSE None

ModifierIgnore == \E k \in 1..Len(hist.modifiers) : hist.modifiers[k] = "IGNORE"

\* C29: a statement that starts with REPLACE is parsed by parse_insert into
\* the Statement::Insert of the same text with INSERT, and no Statement::Replace
\* is produced
C29_ReplaceIsInsert ==
    (hist.family = "replace" /\ pc # "parse") =>
        /\ ret[1] \in {"Ok", "Err"}
        /\ ret[1] = "Ok" =>
              /\ Len(ret[2]) = 1
              /\ ret[2][1][1] = "Insert"
              /\ ret[2][1][2] = ModifierPriority
              /\ ret[2][1][3] = ModifierIgnore
        /\ pc = "reparsed" => ret = hist.first

\* REPLACE LOW_PRIORITY IGNORE ... ON DUPLICATE KEY UPDATE a = 1 and its INSERT
C29_Witness ==
    /\ hist.family = "replace"
    /\ pc = "reparsed"
    /\ tokens[1] = "INSERT"
    /\ hist.modifiers = <<"LOW_PRIORITY", "IGNORE">>
    /\ hist.first[1] = "Ok"
    /\ hist.first[2][1][1] = "Insert"
    /\ hist.first[2][1][7] # None
    /\ ret = hist.first

\* a REPLACE that is cut short has the error of the INSERT
ReplaceCutShort ==
    /\ hist.family = "replace"
    /\ pc = "reparsed"
    /\ hist.first[1] = "Err"
    /\ ret = hist.first

-----------------------------------------------------------------------------
(* Prefix ~                                                                 *)

\* what is written in front of ~
BitwiseLefts == { <<>>, <<"w", "*">>, <<"NOT">>, <<"-">> }

\* what is written behind the operand of ~ and is no part of an expression
BitwiseEnders == { <<>>, <<",", "w">> }

\* behind `~ x IS NULL`: a collation, and an infix operator behind the collation
CollateTails ==
    { <<"COLLATE", "c">>, <<"COLLATE", "c", "+", "1">>, <<"COLLATE", "c", "AND", "z">> }

\* `left ~ x`, the operators of a chain, and what is behind them
BitwiseText(left, chain, behind) ==
    left \o (IF chain = <<>> THEN <<"~", "x">> ELSE UnaryText("~", chain)) \o behind

InitBitwise ==
    /\ \/ \E left \in BitwiseLefts, chain \in UnaryChains \cup {<<>>}, behind \in BitwiseEnders :
             /\ tokens = Spaced(BitwiseText(left, chain, behind))
             /\ hist = [family |-> "bitwise", left |-> left, chain |-> chain,
                        behind |-> behind, collate |-> FALSE]
       \/ \E behind \in CollateTails :
             LET chain == << [toks |-> <<"IS", "NULL">>, op |-> "IsNull"] >>
             IN /\ tokens = Spaced(BitwiseText(<<>>, chain, behind))
                /\ hist = [family |-> "bitwise", left |-> <<>>, chain |-> chain,
                           behind |-> behind, collate |-> TRUE]
    /\ dialect_type \in Dialects
    /\ index = 0
    /\ pc = "parse_expr"
    /\ stmts = <<>>
    /\ expecting_statement_delimiter = FALSE
    /\ ret = None

SpecBitwise == InitBitwise /\ [][NextExpr]_vars

\* the expression behind ~ with every operator of the chain
BitwiseOperand ==
    CASE hist.chain = <<>> -> IdentX
      [] Len(hist.chain) = 1 -> Infix(IdentX, hist.chain[1], IdentY)
      [] OTHER -> InfixPair(IdentX, hist.chain[1], hist.chain[2])

\* a node in the place that the text in front of ~ gives it
UnderLeft(node) ==
    CASE hist.left = <<>> -> node
      [] hist.left = <<"w", "*">> -> <<"BinaryOp", <<"Identifier", "w">>, "Multiply", node>>
      [] OTHER -> UnaryOp(hist.left[1], node)

\* the node built from ~ with a collation behind it, in a dialect that has one
CollatedBitwise ==
    LET collated == <<"Collate", <<"BitwiseNested", BitwiseOperand>>, <<"c">>>>
    IN CASE hist.behind = <<"COLLATE", "c">> -> collated
         [] hist.behind = <<"COLLATE", "c", "+", "1">> ->
              <<"BinaryOp", collated, "Plus", <<"Value", <<"Number", "1">>>>>>
         [] OTHER -> <<"BinaryOp", collated, "And", IdentZ>>

\* parse_infix was applied to the node that parse_prefix built from ~
InfixAppliedToBitwise ==
    /\ hist.left = <<>>
    /\ ret[2][1] \in {"BinaryOp", "IsNull", "IsNotNull", "InList", "InSubquery", "Between", "Cast"}

BitwiseUnderNot ==
    /\ hist.family = "bitwise"
    /\ pc = "done"
    /\ tokens = Spaced(<<"NOT", "~", "x", "OR", "y">>)
    /\ ret[2] = <<"UnaryOp", "Not", <<"BitwiseNested", <<"BinaryOp", IdentX, "Or", IdentY>>>>>>

\* ~ x IS NULL COLLATE c + 1 outside MySql: + is applied to the collated node
PlusOnCollatedBitwise ==
    /\ hist.family = "bitwise"
    /\ pc = "done"
    /\ dialect_type = "Generic"
    /\ hist.behind = <<"COLLATE", "c", "+", "1">>
    /\ ret[2][1] = "BinaryOp"
    /\ ret[2][2][1] = "Collate"
    /\ ret[2][2][2][1] = "BitwiseNested"

=============================================================================
